---- MODULE Spec2Model ----
(***************************************************************************)
(* A model of grcp: the router controller (grcp/core/controller.py), its   *)
(* messenger (grcp/core/messenger.py), the topology manager                *)
(* (grcp/core/topology.py), the model layer and graph-store wrapper        *)
(* (grcp/core/model.py, grcp/core/graphdb.py) and the application          *)
(* framework (grcp/app_manager.py).                                        *)
(*                                                                         *)
(* Python values are modelled as follows: None is the string "None", a     *)
(* router id is a sequence of characters, a dict is a set of <<key,       *)
(* value>> pairs with one pair per key, an exception is a string naming   *)
(* its class and "none" stands for normal completion.                      *)
(***************************************************************************)
EXTENDS Integers, Sequences, FiniteSets, TLC

\* ------------------------------------------------------------------ bounds

\* Capacity of RouterController.incomming_queue (eventlet.Queue(512) in the
\* source), scaled down so that a full queue is reachable.
InQueueCap == 1

\* Capacity of RouterController.outgoing_queue (eventlet.Queue(512)).
OutQueueCap == 1

\* Capacity of AppBase.events (eventlet.Queue(512)).
EventQueueCap == 2

\* ------------------------------------------------------------ value domains

None == "None"
NoExc == "none"

\* Connection identities (transport.getPeer()).
Conns == {"c1", "c2"}

\* Router ids: strings over the alphabet {a, b, "}. The second id holds a
\* double quote, a character JSON has to escape.
RouterIds == { <<"a">>, <<"b", "\"">> }

\* The command sent back to routers by send_msg.
Commands == {"add_mapping"}

\* msg_type values the spec's dispatch table lists.
SpecMsgTypes ==
    {"router_up", "router_down", "peer_up", "peer_down",
     "route_up", "route_add", "route_down", "route_remove",
     "link_up", "link_down", "link_state_change",
     "nexthop_up", "nexthop_down"}

\* ------------------------------------------------------------ dict helpers

DictHas(d, k) == \E p \in d : p[1] = k

DictGet(d, k, default) ==
    IF DictHas(d, k) THEN (CHOOSE p \in d : p[1] = k)[2] ELSE default

\* d[k] = v: the pair of k, if any, is replaced.
DictMutSetKeepsOld(d, k, v) == d \cup {<<k, v>>}

DictSet(d, k, v) == {p \in d : p[1] # k} \cup {<<k, v>>}

DictPop(d, k) == {p \in d : p[1] # k}

DictKeys(d) == {p[1] : p \in d}

\* The keys of d whose value is v.
KeysOf(d, v) == {p[1] : p \in {q \in d : q[2] = v}}

\* msg.get(key): None when the key is missing.
Get(msg, key) == IF key \in DOMAIN msg THEN msg[key] ELSE None

Has(msg, key) == key \in DOMAIN msg

\* ------------------------------------------------------------ JSON text
\* A line from the wire is text chosen by the router agent. It is modelled by
\* what json.loads makes of it: "garbage" is text that is no JSON, "array" is
\* JSON that is no object, "object" carries the decoded object. A "fmt" line is
\* the text the controller itself builds in handle_disconnect by pasting the
\* router id between two double quotes.
FmtRouterDown(router_id) == [kind |-> "fmt", routerid |-> router_id]

\* The JSON string scanner on the characters pasted between the quotes: a
\* double quote ends the string, and what follows it (the rest of the id and
\* the quote of the template) is no valid continuation of an object.
RECURSIVE ScanString(_, _)
ScanString(chars, i) ==
    IF i > Len(chars) THEN TRUE
    ELSE IF chars[i] = "\"" THEN FALSE
    ELSE ScanString(chars, i + 1)

json_loads(line) ==
    IF line.kind = "garbage" THEN [exc |-> "JSONDecodeError", isobj |-> FALSE, obj |-> <<>>]
    ELSE IF line.kind = "array" THEN [exc |-> NoExc, isobj |-> FALSE, obj |-> <<>>]
    ELSE IF line.kind = "object" THEN [exc |-> NoExc, isobj |-> TRUE, obj |-> line.obj]
    ELSE IF ScanString(line.routerid, 1)
         THEN [exc |-> NoExc, isobj |-> TRUE,
               obj |-> [msg_type |-> "router_down", routerid |-> line.routerid]]
         ELSE [exc |-> "JSONDecodeError", isobj |-> FALSE, obj |-> <<>>]

\* ------------------------------------------------------------ applications

TopoManager == "topo_manager"

\* AppManager.applications after load_apps: the topology manager and the
\* applications named on the command line.
Apps == {TopoManager, "app1", "app2"}

EventTypes == {"EventRouterUp", "EventRouterDown", "EventRouteAdd", "EventRouteDel",
               "EventPeerUp", "EventPeerDown", "EventLinkUp", "EventLinkDown"}

\* An event: EventBase(msg), its class and the entity it carries.
Event(type, key) == [type |-> type, key |-> key]

register_observers_with_self(hs, self) ==
    [ev \in EventTypes |-> {app \in Apps : ev \in hs[app]}]

\* AppBase.register_observers(apps): every other application is an observer of
\* the event classes it has handlers for.
register_observers(hs, self) ==
    [ev \in EventTypes |-> {app \in Apps : app # self /\ ev \in hs[app]}]

\* AppBase._get_observers(ev), obs being self.observers
get_observers(obs, ev) == obs[ev.type]

RECURSIVE DeliverIgnoringFull(_, _, _, _, _)
DeliverIgnoringFull(evq, obs, order, i, ev) ==
    IF i > Len(order) THEN [events |-> evq, exc |-> NoExc]
    ELSE IF order[i] \notin obs THEN DeliverIgnoringFull(evq, obs, order, i + 1, ev)
    ELSE DeliverIgnoringFull([evq EXCEPT ![order[i]] = Append(@, ev)], obs, order, i + 1, ev)

\* AppBase.send_event_to_observers(ev): _receive_event (put_nowait) on each
\* observer in the set's iteration order; put_nowait on a full queue raises
\* Full, which ends the loop.
RECURSIVE Deliver(_, _, _, _, _)
Deliver(evq, obs, order, i, ev) ==
    IF i > Len(order) THEN [events |-> evq, exc |-> NoExc]
    ELSE IF order[i] \notin obs THEN Deliver(evq, obs, order, i + 1, ev)
    ELSE IF Len(evq[order[i]]) >= EventQueueCap THEN [events |-> evq, exc |-> "Full"]
    ELSE Deliver([evq EXCEPT ![order[i]] = Append(@, ev)], obs, order, i + 1, ev)

send_event_to_observers(evq, obs, ev, order) ==
    Deliver(evq, get_observers(obs, ev), order, 1, ev)

\* The handler methods of an application: register_handlers(app) registers
\* every method under each class in its events_to_listen, so a class can have
\* several handlers.
HandlerMethods == {"handler1", "handler2"}

\* AppBase._get_handlers(event), hs being the classes in self.handlers
get_handlers(hs, event) == IF event.type \in hs THEN HandlerMethods ELSE {}

queue_get_lifo(q) == [item |-> q[Len(q)], queue |-> SubSeq(q, 1, Len(q) - 1)]

\* eventlet.Queue.get() on a queue that is not empty: the oldest item.
queue_get(q) == [item |-> Head(q), queue |-> Tail(q)]

\* The event loop between two events, at self.events.get().
Waiting == [alive |-> TRUE, event |-> <<>>, todo |-> {}]

\* The event loop with an event in hand and the handlers still to call; when
\* none is left the while loop comes back to self.events.get().
Holding(event, todo) ==
    IF todo = {} THEN Waiting ELSE [alive |-> TRUE, event |-> <<event>>, todo |-> todo]

\* The loop has left `while self.running`.
Stopped == [alive |-> FALSE, event |-> <<>>, todo |-> {}]

\* `while self.running:` is evaluated when the handlers of an event are
\* done: the loop ends when running is false and goes to self.events.get()
\* otherwise.  A loop that waits in get() does not look at running.
while_running(run, l) == IF l = Waiting /\ ~run THEN Stopped ELSE l

\* ------------------------------------------------------------ state

VARIABLES
    connection_to_protocol_instance, \* MessengerServer: the live connections
    router_to_connection,            \* RouterController: dict router id -> conn
    incomming_queue,                 \* RouterController: <<conn, line>> items
    outgoing_queue,                  \* RouterController: <<conn, msg>> items
    nodes,                           \* graph store: the nodes
    edges,                           \* graph store: the relationships
    nexthops,                        \* TopologyManager.nexthops
    prefixes,                        \* TopologyManager.prefixes (dict of sets)
    handlers,                        \* AppBase.handlers of each application
    observers,                       \* AppBase.observers of each application
    events,                          \* AppBase.events of each application
    loop,                            \* AppBase._event_loop of each application
    running,                         \* AppBase: self.running of each application
    queries,                         \* the Query objects and their orders lists
    neo4j,                           \* Neo4J.__init__ / model.initialize at start-up
    last                             \* what the last step did (history)

vars == <<connection_to_protocol_instance, router_to_connection, incomming_queue,
          outgoing_queue, nodes, edges, nexthops, prefixes, handlers, observers,
          events, loop, running, queries, neo4j, last>>

\* for _ in range(60) in Neo4J.__init__
ConnectAttempts == 60

\* No Query object has been made: self.filters and self.orders live in the
\* objects of query, the lists that orders refer to in list.
NoQueries == [query |-> <<>>, list |-> <<>>]

\* model.initialize before Neo4J.__init__ has made an attempt: self.driver
\* is None.
Unconnected == [pc |-> "connect", attempts |-> 0, sleeps |-> 0, driver |-> None]

\* model.initialize has returned with a driver: the state the applications
\* run in.
Connected == [pc |-> "started", attempts |-> ConnectAttempts, sleeps |-> 0, driver |-> "driver"]

\* The part of the state the topology manager's handlers work on.
World == [nodes |-> nodes, edges |-> edges, nexthops |-> nexthops,
          prefixes |-> prefixes, events |-> events]

\* The result of a call: the world after it, the exception it raised and
\* whether it returned an entity (a true value).
Result(w, exc, ok) == [w |-> w, exc |-> exc, ok |-> ok]

\* ------------------------------------------------------------ graph store

\* A Python call binds its keyword arguments to the parameters of the callee;
\* a keyword the callee has no parameter for is a TypeError.
CallBinds(keywords, params) == keywords \subseteq params

create_node_params == {"match_dict", "labels", "properties"}

Merge(old, new) ==
    [k \in (DOMAIN old) \cup (DOMAIN new) |-> IF k \in DOMAIN new THEN new[k] ELSE old[k]]

MatchNode(ns, kind, key) == {n \in ns : n.kind = kind /\ n.key = key}

NewUid(w) ==
    1 + Cardinality(w.nodes) + Cardinality(w.edges)

\* Neo4J.create_node: MERGE (node:kind {match}) ON MATCH / ON CREATE
\* SET node = $properties, node.uid = id(node) RETURN node
create_node(w, kind, key, properties) ==
    IF MatchNode(w.nodes, kind, key) # {}
    THEN Result([w EXCEPT !.nodes =
                    {IF n.kind = kind /\ n.key = key
                     THEN [n EXCEPT !.props = properties] ELSE n : n \in w.nodes}],
                NoExc, TRUE)
    ELSE Result([w EXCEPT !.nodes = @ \cup
                    {[kind |-> kind, key |-> key, uid |-> NewUid(w), props |-> properties]}],
                NoExc, TRUE)

\* A store whose update removes the matched node instead of setting its
\* properties: what no handler of a down message may amount to.
update_node_removing(w, kind, key, properties) ==
    Result([w EXCEPT !.nodes = @ \ MatchNode(@, kind, key)], NoExc,
           MatchNode(w.nodes, kind, key) # {})

\* Neo4J.update_node: MATCH (node:kind {match}) SET ... RETURN node
update_node(w, kind, key, properties) ==
    IF MatchNode(w.nodes, kind, key) # {}
    THEN Result([w EXCEPT !.nodes =
                    {IF n.kind = kind /\ n.key = key
                     THEN [n EXCEPT !.props = Merge(@, properties)] ELSE n : n \in w.nodes}],
                NoExc, TRUE)
    ELSE Result(w, NoExc, FALSE)

MatchEdge(es, kind, src, dst) ==
    {e \in es : e.kind = kind /\ e.src = src /\ e.dst = dst}

\* Neo4J.create_link: MATCH (src {..}), (dst {..}) MERGE (src)-[:kind]->(dst)
\* SET ... RETURN ...: no record when either end is missing.
create_link(w, kind, srckind, src, dstkind, dst, properties) ==
    IF MatchNode(w.nodes, srckind, src) = {} \/ MatchNode(w.nodes, dstkind, dst) = {}
    THEN Result(w, NoExc, FALSE)
    ELSE IF MatchEdge(w.edges, kind, src, dst) # {}
    THEN Result([w EXCEPT !.edges =
                    {IF e.kind = kind /\ e.src = src /\ e.dst = dst
                     THEN [e EXCEPT !.props = Merge(@, properties)] ELSE e : e \in w.edges}],
                NoExc, TRUE)
    ELSE Result([w EXCEPT !.edges = @ \cup
                    {[kind |-> kind, src |-> src, dst |-> dst, props |-> properties]}],
                NoExc, TRUE)

\* Neo4J.update_link(name, linkid, kind, properties): Edge.update passes the
\* destination match, a dict, as kind, and ':' + kind is a TypeError.
update_link(w, name, linkid_is_dict, kind_is_dict, properties) ==
    IF kind_is_dict THEN Result(w, "TypeError", FALSE)
    ELSE Result(w, NoExc, FALSE)

\* ------------------------------------------------------------ model layer

\* Node.get_or_create: cls._gdb.create_node(match=.., labels=.., properties=..)
Node_get_or_create(w, kind, key, kwargs) ==
    IF ~CallBinds({"match", "labels", "properties"}, create_node_params)
    THEN Result(w, "TypeError", FALSE)
    ELSE create_node(w, kind, key, kwargs)

\* Border.get_or_create(routerid, **kwargs)
Border_get_or_create(w, routerid, kwargs) ==
    Node_get_or_create(w, "Border", routerid, Merge(kwargs, [routerid |-> routerid]))

\* Nexthop.get_or_create(nexthop, **kwargs)
Nexthop_get_or_create(w, nexthop, kwargs) ==
    Node_get_or_create(w, "Nexthop", nexthop, Merge(kwargs, [nexthop |-> nexthop]))

\* Prefix.get_or_create(prefix, **kwargs)
Prefix_get_or_create(w, prefix, kwargs) ==
    Node_get_or_create(w, "Prefix", prefix, Merge(kwargs, [prefix |-> prefix]))


\* The Property attributes of the edge classes: Model and Edge give uid,
\* state, src and dst, Link and its subclasses the link properties.
LinkProperties ==
    {"uid", "state", "src", "dst", "loss", "delay", "bandwidth", "utilization",
     "dp_id", "port_name", "port_no", "vlan_vid"}

EdgeProperties(kind) ==
    IF kind = "Route"
    THEN {"uid", "state", "src", "dst", "local_pref", "as_path", "origin", "med", "prefix"}
    ELSE IF kind = "IntraLink" THEN LinkProperties \cup {"weight"}
    ELSE IF kind = "InterEgress" THEN LinkProperties \cup {"cost", "pathid"}
    ELSE {"uid", "state", "src", "dst"}

\* PreferenceProperty._validate: an int that is not negative.
ValidPreference(value) == value \in Nat

\* Python values given for a typed property: an int, or a str (its characters).
PyInt(n) == <<"int", n>>
PyStr(chars) == <<"str", chars>>

Digits == <<"0", "1", "2", "3", "4", "5", "6", "7", "8", "9">>

IsDigit(c) == \E i \in DOMAIN Digits : Digits[i] = c

DigitValue(c) == (CHOOSE i \in DOMAIN Digits : Digits[i] = c) - 1

\* int(chars) for a str of decimal digits
RECURSIVE DecimalValue(_)
DecimalValue(chars) ==
    IF chars = <<>> THEN 0
    ELSE 10 * DecimalValue(SubSeq(chars, 1, Len(chars) - 1)) + DigitValue(chars[Len(chars)])

\* Property._validate for a property whose _type is int: cls._type(value),
\* and a ValueError when int() raises (a str that is no decimal number).
IntegerProperty_validate(value) ==
    IF value[1] = "int" THEN [ok |-> TRUE, value |-> value]
    ELSE IF value[2] # <<>> /\ \A i \in DOMAIN value[2] : IsDigit(value[2][i])
    THEN [ok |-> TRUE, value |-> PyInt(DecimalValue(value[2]))]
    ELSE [ok |-> FALSE, value |-> value]

\* The attributes that are an IntegerProperty (MedProperty, OriginProperty
\* and PreferenceProperty have their own place here).
IntegerProperties == {"pathid", "dp_id", "port_no", "vlan_vid", "label", "local_as", "peer_as"}

\* getattr(cls, attr)._validate(value): the value the property stores, or a
\* ValueError.  StringProperty is str(value), which takes every value.
Property_validate(attr, value) ==
    IF attr \in IntegerProperties THEN IntegerProperty_validate(value)
    ELSE IF attr = "local_pref" THEN [ok |-> ValidPreference(value), value |-> value]
    ELSE [ok |-> TRUE, value |-> value]

\* The keywords after validation, each with the value its property returned.
Validated(kwargs) == [k \in DOMAIN kwargs |-> Property_validate(k, kwargs[k]).value]

\* The properties that are required and have no default, besides uid, src
\* and dst, which the model layer supplies itself.
RequiredProperties(kind) ==
    IF kind = "InterEgress" THEN {"pathid"}
    ELSE IF kind = "Border" THEN {"routerid"}
    ELSE IF kind = "Neighbor" THEN {"routerid", "peer_ip"}
    ELSE IF kind = "Prefix" THEN {"prefix"}
    ELSE IF kind = "Nexthop" THEN {"nexthop"}
    ELSE {}

\* Model.entity_to_model on the node r a store call returned:
\* modelclass(**properties) of the stored node, whose __init__ validates
\* every stored value (ValueError) and wants the required properties
\* (AttributeError).
Node_entity_to_model(r, kind, key) ==
    IF ~r.ok THEN r
    ELSE IF \E n \in MatchNode(r.w.nodes, kind, key) :
                \E k \in DOMAIN n.props : ~Property_validate(k, n.props[k]).ok
    THEN Result(r.w, "ValueError", FALSE)
    ELSE IF \E n \in MatchNode(r.w.nodes, kind, key) :
                ~(RequiredProperties(kind) \subseteq DOMAIN n.props)
    THEN Result(r.w, "AttributeError", FALSE)
    ELSE r

\* Router.update(routerid, properties), called on Border:
\* update_node(match_dict, cls.__name__, properties) with the properties as
\* given, then entity_to_model on the record.
Border_update(w, routerid, properties) ==
    Node_entity_to_model(update_node(w, "Border", routerid, properties), "Border", routerid)

\* The uids (uuid4 strings) the stored relationships carry.
StoredUuids(w) == {e.props.uid[2] : e \in w.edges}

\* UIDProperty.generate(): str(uuid.uuid4()), a uid no stored entity has.
UIDProperty_generate(w) ==
    <<"uuid", 1 + (IF StoredUuids(w) = {} THEN 0
                   ELSE CHOOSE n \in StoredUuids(w) : \A m \in StoredUuids(w) : m <= n)>>

\* Edge.neo4j_to_model on the record r create_link returned:
\* modelclass(**properties) of the stored relationship, whose __init__
\* raises AttributeError when a required property is not among them.
Edge_neo4j_to_model(r, kind, src, dst) ==
    IF ~r.ok THEN r
    ELSE IF \E e \in MatchEdge(r.w.edges, kind, src, dst) :
                ~(RequiredProperties(kind) \subseteq DOMAIN e.props)
    THEN Result(r.w, "AttributeError", FALSE)
    ELSE r

\* Edge.get_or_create: every keyword is validated by its property, a uid is
\* generated when none is given, then
\* create_link(cls.__name__, src_match, dst_match, kwargs) and the record
\* is turned into a model instance.
Edge_get_or_create(w, kind, srckind, src, dstkind, dst, kwargs) ==
    IF ~(DOMAIN kwargs \subseteq EdgeProperties(kind))
    THEN Result(w, "AttributeError", FALSE)
    ELSE IF \E k \in DOMAIN kwargs : ~Property_validate(k, kwargs[k]).ok
    THEN Result(w, "ValueError", FALSE)
    ELSE Edge_neo4j_to_model(
             create_link(w, kind, srckind, src, dstkind, dst,
                         IF "uid" \in DOMAIN kwargs THEN Validated(kwargs)
                         ELSE Merge(Validated(kwargs), [uid |-> UIDProperty_generate(w)])),
             kind, src, dst)

\* Route.get_or_create(neighbor, prefix, **properties)
Route_get_or_create(w, neighbor, prefix, properties) ==
    Edge_get_or_create(w, "Route", "Nexthop", neighbor, "Prefix", prefix,
                       Merge(properties, [prefix |-> prefix]))

\* Route.update -> Edge.update:
\* cls._gdb.update_link(cls.__name__, src_match, dst_match, kwargs)
Route_update(w, nexthop, prefix, properties) ==
    update_link(w, "Route", TRUE, TRUE, properties)

\* The Property attributes of the node classes: Model gives uid and state,
\* Node name, Router routerid and label, the subclasses the rest.
NodeProperties(kind) ==
    IF kind = "Border" THEN {"uid", "state", "name", "routerid", "label", "local_as"}
    ELSE IF kind = "Neighbor"
    THEN {"uid", "state", "name", "routerid", "label", "peer_ip", "peer_as", "local_ip",
          "local_as"}
    ELSE IF kind = "Prefix" THEN {"uid", "state", "name", "prefix"}
    ELSE {"uid", "state", "name", "nexthop", "dp", "port", "vlan"}

NodeKinds == {"Border", "Neighbor", "Prefix", "Nexthop"}

\* Model.__init__(**kwargs): setattr of every keyword (AttributeError for a
\* name that is no Property, ValueError from the property's _validate), the
\* defaults, and AttributeError for a required property that was not set;
\* an Edge wants src and dst as well.
Model_init(kind, kwargs) ==
    IF ~(DOMAIN kwargs \subseteq
            (IF kind \in NodeKinds THEN NodeProperties(kind) ELSE EdgeProperties(kind)))
    THEN "AttributeError"
    ELSE IF \E k \in DOMAIN kwargs : ~Property_validate(k, kwargs[k]).ok
    THEN "ValueError"
    ELSE IF ~((RequiredProperties(kind) \cup
                  (IF kind \in NodeKinds THEN {} ELSE {"src", "dst"})) \subseteq DOMAIN kwargs)
    THEN "AttributeError"
    ELSE NoExc

\* Node.put: self._gdb.create_node(labels=.., match=.., properties=..)
Node_put(w, kind, match_dict, kwargs) ==
    IF ~CallBinds({"labels", "match", "properties"}, create_node_params)
    THEN Result(w, "TypeError", FALSE)
    ELSE create_node(w, kind, match_dict, kwargs)

\* Edge.put: create_link(kind=.., src={'uid': src}, dst={'uid': dst},
\* properties=..), src and dst being the str of a UUID as UIDProperty
\* returns it; the uid of a stored node is id(node), an integer, which no
\* such str equals: no record.
Edge_put(w, kind, kwargs) == Result(w, NoExc, FALSE)

\* Module attributes of grcp.core.model that Query._to_cypher names for a
\* Path query, and the classes the module defines.
PathQueryNames == {"InterIngress", "IntraLink", "InterEgress", "BorderRouter",
                   "PeerRouter", "Route"}

ModelClasses == {"Route", "Path", "IntraLink", "InterEgress", "InterIngress", "Border",
                 "Neighbor", "Prefix", "Nexthop", "Session", "Advertise", "Mapping",
                 "Model", "Node", "Router", "Edge", "Link"}

StateOf(x) == IF "state" \in DOMAIN x.props THEN x.props.state ELSE None

\* The WHERE clause of the Path query on a match: the egress link, the
\* source, the egress router, the neighbor and the route are up.
PathWhere(src, b, neigh, egress, route) ==
    /\ StateOf(egress) = "up"
    /\ StateOf(src) = "up"
    /\ StateOf(b) = "up"
    /\ StateOf(neigh) = "up"
    /\ StateOf(route) = "up"

\* The nodes one relationship of the kind away from node n, or n itself
\* (the *0..1 of the pattern).
ZeroOrOneHop(w, n, kind, label) ==
    {m \in w.nodes : /\ m.kind = label
                     /\ \/ m = n
                        \/ \E e \in w.edges : e.kind = kind /\ e.src = n.key /\ e.dst = m.key}

\* The matches of the Path query's MATCH ... WHERE: src, then the ingress
\* router i, the egress router b, the neighbor and dst, b_kind and n_kind
\* being the labels the query text names for them.
PathMatches(w, src_kind, routerid, prefix, b_kind, n_kind) ==
    {[src |-> src, i |-> i, b |-> b, neigh |-> egress.dst, dst |-> dst,
      egress |-> egress, route |-> route] :
        src \in MatchNode(w.nodes, src_kind, routerid),
        dst \in MatchNode(w.nodes, "Prefix", prefix),
        i \in w.nodes, b \in w.nodes, egress \in w.edges, route \in w.edges}

\* The early filter of the Path query: ( (neigh.peer_ip <> src.peer_ip AND
\* EXISTS(src.peer_ip)) OR NOT EXISTS(src.peer_ip) ); a comparison with a
\* property the neighbor does not have is null, which matches nothing.
PathEarlyFilter(src, neigh) ==
    IF "peer_ip" \in DOMAIN src.props
    THEN "peer_ip" \in DOMAIN neigh.props /\ neigh.props.peer_ip # src.props.peer_ip
    ELSE TRUE

\* Query.fetch for Path.query(routerid, prefix, for_peer): the source is a
\* Neighbor when for_peer and a Border otherwise; _to_cypher builds the text
\* with model.BorderRouter.__name__ and model.PeerRouter.__name__, which the
\* model module does not define: AttributeError, no record.
Path_fetch(w, routerid, prefix, for_peer) ==
    IF ~(PathQueryNames \subseteq ModelClasses)
    THEN [exc |-> "AttributeError", paths |-> {}]
    ELSE [exc |-> NoExc,
          paths |-> {m \in PathMatches(w, IF for_peer THEN "Neighbor" ELSE "Border",
                                       routerid, prefix, "BorderRouter", "PeerRouter") :
                       /\ m.i \in ZeroOrOneHop(w, m.src, "InterIngress", "BorderRouter")
                       /\ m.b \in ZeroOrOneHop(w, m.i, "IntraLink", "BorderRouter")
                       /\ m.b # m.i =>
                              \E e \in w.edges : /\ e.kind = "IntraLink"
                                                 /\ e.src = m.i.key /\ e.dst = m.b.key
                                                 /\ StateOf(e) \in {"up", None}
                       /\ m.egress.kind = "InterEgress" /\ m.egress.src = m.b.key
                       /\ \E n \in MatchNode(w.nodes, "PeerRouter", m.neigh) :
                              /\ PathEarlyFilter(m.src, n)
                              /\ PathWhere(m.src, m.b, n, m.egress, m.route)
                       /\ m.route.kind = "Route" /\ m.route.src = m.neigh
                       /\ m.route.dst = m.dst.key}]

\* ------------------------------------------------------------ topology manager

\* self.send_event_to_observers(ev) of the topology manager, inside a handler.
Emit(w, ev, order) ==
    LET d == send_event_to_observers(w.events, observers[TopoManager], ev, order)
    IN  Result([w EXCEPT !.events = d.events], d.exc, d.exc = NoExc)

\* After a store call r: the exception goes on, an entity is announced by
\* the event ev, no entity is no event.
EmitAlways(r, ev, order) ==
    IF r.exc # NoExc THEN r
    ELSE LET e == Emit(r.w, ev, order) IN Result(e.w, e.exc, e.exc = NoExc)

EmitIf(r, ev, order) ==
    IF r.exc # NoExc THEN r
    ELSE IF r.ok THEN LET e == Emit(r.w, ev, order) IN Result(e.w, e.exc, e.exc = NoExc)
    ELSE r

\* TopologyManager.router_register(routerid, **kwargs)
router_register(w, routerid, kwargs, order) ==
    LET kw == IF "state" \in DOMAIN kwargs THEN kwargs
              ELSE Merge(kwargs, [state |-> "unknown"])
    IN  EmitIf(Border_get_or_create(w, routerid, kw),
               Event("EventRouterUp", routerid), order)

\* TopologyManager.router_up(routerid)
router_up(w, routerid, order) ==
    EmitIf(Border_update(w, routerid, [state |-> "up"]),
           Event("EventRouterUp", routerid), order)

\* TopologyManager.router_down(routerid)
router_down(w, routerid, order) ==
    EmitIf(Border_update(w, routerid, [state |-> "down"]),
           Event("EventRouterDown", routerid), order)

\* TopologyManager.create_nexthop(nexthop)
create_nexthop_caching_failures(w, nexthop) ==
    IF nexthop \in w.nexthops THEN Result(w, NoExc, FALSE)
    ELSE LET r == Nexthop_get_or_create(w, nexthop, [state |-> "up"])
         IN  Result([r.w EXCEPT !.nexthops = @ \cup {nexthop}], r.exc, r.ok)

create_nexthop(w, nexthop) ==
    IF nexthop \in w.nexthops THEN Result(w, NoExc, FALSE)
    ELSE LET r == Nexthop_get_or_create(w, nexthop, [state |-> "up"])
         IN  IF r.exc # NoExc THEN r
             ELSE IF r.ok THEN Result([r.w EXCEPT !.nexthops = @ \cup {nexthop}], NoExc, TRUE)
             ELSE r

\* TopologyManager.create_prefix(prefix)
create_prefix(w, prefix) ==
    IF DictHas(w.prefixes, prefix) THEN Result(w, NoExc, FALSE)
    ELSE Prefix_get_or_create(w, prefix, [state |-> "up"])

\* self.prefixes[prefix] on a defaultdict(set): a missing key is inserted.
PrefixesTouch(ps, prefix) ==
    IF DictHas(ps, prefix) THEN ps ELSE ps \cup {<<prefix, {}>>}

\* TopologyManager.route_up, its end: if route: self.prefixes[prefix].add(nexthop)
\* and the event. route is the result of the store call.
route_up_announce(route, nexthop, prefix, order) ==
    IF route.exc # NoExc THEN route
    ELSE IF route.ok
    THEN Emit([route.w EXCEPT !.prefixes =
                  DictSet(@, prefix, DictGet(@, prefix, {}) \cup {nexthop})],
              Event("EventRouteAdd", nexthop \o prefix), order)
    ELSE route

\* TopologyManager.route_up, the store call: Route.update when the nexthop is
\* known for the prefix, Route.get_or_create otherwise. w is the world after
\* self.prefixes[prefix] was looked up.
route_up_store(w, nexthop, prefix, properties, order) ==
    route_up_announce(
        IF nexthop \in DictGet(w.prefixes, prefix, {})
        THEN Route_update(w, nexthop, prefix, [state |-> "up"])
        ELSE Route_get_or_create(w, nexthop, prefix, properties),
        nexthop, prefix, order)

\* TopologyManager.route_up after create_prefix, whose result is r.
route_up_after_prefix(r, nexthop, prefix, properties, order) ==
    IF r.exc # NoExc THEN r
    ELSE route_up_store([r.w EXCEPT !.prefixes = PrefixesTouch(@, prefix)],
                        nexthop, prefix, properties, order)

\* TopologyManager.route_up after create_nexthop, whose result is r.
route_up_after_nexthop(r, nexthop, prefix, properties, order) ==
    IF r.exc # NoExc THEN r
    ELSE route_up_after_prefix(
             IF ~DictHas(r.w.prefixes, prefix) THEN create_prefix(r.w, prefix)
             ELSE Result(r.w, NoExc, FALSE),
             nexthop, prefix, properties, order)

\* TopologyManager.route_up(nexthop, prefix, local_pref, med, as_path, origin)
route_up(w, nexthop, prefix, local_pref, med, as_path, order) ==
    route_up_after_nexthop(
        IF nexthop \notin w.nexthops THEN create_nexthop(w, nexthop)
        ELSE Result(w, NoExc, FALSE),
        nexthop, prefix,
        [state |-> "up", med |-> med, origin |-> 0, as_path |-> as_path,
         local_pref |-> local_pref],
        order)

\* TopologyManager.route_down(peer_ip, nexthop, prefix)
route_down(w, peer_ip, nexthop, prefix, order) ==
    EmitIf(Route_update(w, nexthop, prefix, [state |-> "down"]),
           Event("EventRouteDel", nexthop \o prefix), order)

\* Neighbor.get_or_create(peer_ip, peer_as, local_ip, local_as, **kwargs)
Neighbor_get_or_create(w, peer_ip, kwargs) ==
    Node_get_or_create(w, "Neighbor", peer_ip, Merge(kwargs, [routerid |-> peer_ip]))

\* TopologyManager.peer_up(peer_ip, peer_as, local_ip, local_as, state)
peer_up(w, peer_ip, peer_as, local_ip, local_as, state, order) ==
    LET p  == Neighbor_get_or_create(w, peer_ip, [peer_as |-> peer_as, state |-> state])
        se == IF p.exc # NoExc THEN p
              ELSE Edge_get_or_create(p.w, "Session", "Border", local_ip,
                                      "Neighbor", peer_ip, [state |-> "up"])
    IN  IF se.exc # NoExc THEN se
        ELSE IF p.ok /\ se.ok THEN Emit(se.w, Event("EventPeerUp", peer_ip), order)
        ELSE Result(se.w, NoExc, FALSE)

peer_down_params == {"peer_ip"}

\* Router.update(cls, routerid, properties)
Router_update_params == {"routerid", "properties"}

\* TopologyManager.peer_down(peer_ip), called by the controller with the
\* positional arguments args: model.Neighbor.update(peer_ip, state='down'),
\* a keyword Router.update has no parameter for.
peer_down(w, args, order) ==
    IF Len(args) > Cardinality(peer_down_params) THEN Result(w, "TypeError", FALSE)
    ELSE IF ~CallBinds({"state"}, Router_update_params) THEN Result(w, "TypeError", FALSE)
    ELSE EmitIf(update_node(w, "Neighbor", args[1], [state |-> "down"]),
                Event("EventPeerDown", args[1]), order)

\* TopologyManager.nexthop_up(routerid, nexthop, pathid, ...)
nexthop_up(w, routerid, nexthop, pathid, order) ==
    LET n == create_nexthop(w, nexthop)
    IN  IF n.exc # NoExc THEN n
        ELSE EmitIf(Edge_get_or_create(n.w, "InterEgress", "Border", routerid,
                                       "Nexthop", nexthop,
                                       [state |-> "up", pathid |-> pathid]),
                    Event("EventLinkUp", routerid \o nexthop), order)

\* TopologyManager.nexthop_down(routerid, nexthop)
nexthop_down(w, routerid, nexthop, order) ==
    EmitIf(Edge_get_or_create(w, "InterEgress", "Border", routerid,
                              "Nexthop", nexthop, [state |-> "down"]),
           Event("EventLinkDown", routerid \o nexthop), order)

\* TopologyManager.intra_link_up(router1, router2, dp, port, vlan)
intra_link_up(w, router1, router2, attrs, order) ==
    EmitIf(Edge_get_or_create(w, "IntraLink", "Border", router1, "Border", router2,
                              [state |-> "up", dp |-> attrs.dp, port |-> attrs.port,
                               vlan |-> attrs.vlan]),
           Event("EventLinkUp", router1 \o router2), order)

\* TopologyManager.intra_link_down(router1, router2)
intra_link_down(w, router1, router2, order) ==
    EmitIf(Edge_get_or_create(w, "IntraLink", "Border", router1, "Border", router2,
                              [state |-> "down"]),
           Event("EventLinkDown", router1 \o router2), order)

\* ------------------------------------------------------------ router controller

\* The result of processing a message: the router-to-connection dict and the
\* world after it, the exception raised (none when it completed), the
\* _process_*_msg method the dispatch selected and the topology manager
\* method that was called.
Processed(map, w, exc, proc, handler) ==
    [map |-> map, w |-> w, exc |-> exc, proc |-> proc, handler |-> handler]

\* The outcome of a _process_*_msg method that ends with the call of a
\* topology manager method, whose result is r.
Handled(map, r, proc, handler) == Processed(map, r.w, r.exc, proc, handler)

\* _process_router_msg, router_up: self.router_to_connection[routerid] =
\* conn_id is reached when the handler, whose result is r, has not raised.
BindAfter(map, routerid, conn_id, r, handler) ==
    IF r.exc # NoExc THEN Processed(map, r.w, r.exc, "router", handler)
    ELSE Processed(DictSet(map, routerid, conn_id), r.w, NoExc, "router", handler)

\* RouterController._process_router_msg(conn_id, msg)
process_router_msg(map, w, conn_id, msg, order) ==
    IF ~Has(msg, "routerid") THEN Processed(map, w, NoExc, "router", "none")
    ELSE IF msg.msg_type = "router_up"
    THEN IF DictHas(map, msg.routerid)
         THEN BindAfter(map, msg.routerid, conn_id,
                        router_up(w, msg.routerid, order), "router_up")
         ELSE BindAfter(map, msg.routerid, conn_id,
                        router_register(w, msg.routerid,
                            [k \in (DOMAIN msg) \cap {"state", "name"} |-> msg[k]], order),
                        "router_register")
    ELSE Handled(DictSet(map, msg.routerid, None),
                 router_down(w, msg.routerid, order), "router", "router_down")

\* RouterController._process_peer_msg(msg)
process_peer_msg(map, w, msg, order) ==
    IF ~(Has(msg, "peer_ip") /\ Has(msg, "local_ip"))
    THEN Processed(map, w, NoExc, "peer", "none")
    ELSE IF msg.msg_type = "peer_up"
    THEN Handled(map, peer_up(w, msg.peer_ip, Get(msg, "peer_as"), msg.local_ip,
                              Get(msg, "local_as"),
                              IF Has(msg, "state") THEN msg.state ELSE "down", order),
                 "peer", "peer_up")
    ELSE Handled(map, peer_down(w, <<msg.peer_ip, msg.local_ip>>, order),
                 "peer", "peer_down")

\* RouterController._process_update_msg(msg)
process_update_msg(map, w, msg, order) ==
    IF ~(Has(msg, "next_hop") /\ Has(msg, "prefix") /\ Has(msg, "peer_ip"))
    THEN Processed(map, w, NoExc, "update", "none")
    ELSE IF msg.msg_type = "route_up"
    THEN Handled(map, route_up(w, msg.next_hop, msg.prefix,
                           IF Has(msg, "local_pref") THEN msg.local_pref ELSE 100,
                           IF Has(msg, "med") THEN msg.med ELSE 100,
                           IF Has(msg, "as_path") THEN msg.as_path ELSE <<>>, order),
                 "update", "route_up")
    ELSE Handled(map, route_down(w, msg.peer_ip, msg.next_hop, msg.prefix, order),
                 "update", "route_down")

\* RouterController._process_nexthop_msg(msg)
process_nexthop_msg(map, w, msg, order) ==
    IF ~(Has(msg, "routerid") /\ Has(msg, "nexthop"))
    THEN Processed(map, w, NoExc, "nexthop", "none")
    ELSE IF msg.msg_type = "nexthop_up"
    THEN IF ~Has(msg, "pathid") THEN Processed(map, w, "KeyError", "nexthop", "none")
         ELSE Handled(map, nexthop_up(w, msg.routerid, msg.nexthop, msg.pathid, order),
                 "nexthop", "nexthop_up")
    ELSE Handled(map, nexthop_down(w, msg.routerid, msg.nexthop, order),
                 "nexthop", "nexthop_down")

\* RouterController._process_link_state_msg(msg); the controller has no
\* attribute logger, so reporting a malformed link_up is an AttributeError.
process_link_state_msg(map, w, msg, order) ==
    IF ~(Has(msg, "src") /\ Has(msg, "dst"))
    THEN Processed(map, w, NoExc, "link", "none")
    ELSE IF msg.msg_type = "link_up"
    THEN IF Has(msg, "attributes") /\ {"dp", "port", "vlan"} \subseteq DOMAIN msg.attributes
         THEN Handled(map, intra_link_up(w, msg.src, msg.dst, msg.attributes, order),
                 "link", "intra_link_up")
         ELSE Processed(map, w, "AttributeError", "link", "none")
    ELSE Handled(map, intra_link_down(w, msg.src, msg.dst, order),
                 "link", "intra_link_down")

\* A dispatch that follows the spec's table: route_add, route_remove and
\* link_state_change are handed to the route and link methods as well.
dispatch_spec_table(map, w, conn_id, msg, order) ==
    LET msg_type == Get(msg, "msg_type")
    IN  IF msg_type \in {"route_up", "route_add", "route_down", "route_remove"}
        THEN process_update_msg(map, w, msg, order)
        ELSE IF msg_type \in {"router_up", "router_down"}
        THEN process_router_msg(map, w, conn_id, msg, order)
        ELSE IF msg_type \in {"peer_up", "peer_down"} THEN process_peer_msg(map, w, msg, order)
        ELSE IF msg_type \in {"link_up", "link_down", "link_state_change"}
        THEN process_link_state_msg(map, w, msg, order)
        ELSE IF msg_type \in {"nexthop_up", "nexthop_down"}
        THEN process_nexthop_msg(map, w, msg, order)
        ELSE Processed(map, w, NoExc, "none", "none")

\* The dispatch of RouterController._process_msg: msg.get('msg_type') selects
\* the method; a message of no listed type falls through every branch.
dispatch(map, w, conn_id, msg, order) ==
    LET msg_type == Get(msg, "msg_type")
    IN  IF msg_type \in {"route_up", "route_down"} THEN process_update_msg(map, w, msg, order)
        ELSE IF msg_type \in {"router_up", "router_down"}
        THEN process_router_msg(map, w, conn_id, msg, order)
        ELSE IF msg_type \in {"peer_up", "peer_down"} THEN process_peer_msg(map, w, msg, order)
        ELSE IF msg_type \in {"link_up", "link_down"}
        THEN process_link_state_msg(map, w, msg, order)
        ELSE IF msg_type \in {"nexthop_up", "nexthop_down"}
        THEN process_nexthop_msg(map, w, msg, order)
        ELSE Processed(map, w, NoExc, "none", "none")

\* RouterController._process_msg(conn_id, msg), without its try/except: what
\* the body raises.
process_msg_body(map, w, conn_id, line, order) ==
    LET j == json_loads(line)
    IN  IF j.exc # NoExc THEN Processed(map, w, j.exc, "none", "none")
        ELSE IF ~j.isobj THEN Processed(map, w, "AttributeError", "none", "none")
        ELSE dispatch(map, w, conn_id, j.obj, order)

\* The outcome p of the body with the exception that leaves the method.
Leaving(p, escaped) == p @@ [escaped |-> escaped]

\* _process_msg without its try/except: what the body raises leaves the
\* method.
Uncaught(p) == Leaving(p, p.exc)

process_msg_uncaught(map, w, conn_id, line, order) ==
    Uncaught(process_msg_body(map, w, conn_id, line, order))

\* RouterController._process_msg(conn_id, msg): except Exception logs the
\* error, nothing is raised to the caller. escaped is the exception that
\* leaves the method.
process_msg(map, w, conn_id, line, order) ==
    Leaving(process_msg_body(map, w, conn_id, line, order), NoExc)

\* RouterController.handle_disconnect(conn_id): the routers bound to conn_id,
\* in the order of the dict's keys, are popped and a router_down line is put
\* on the incoming queue for each; put_nowait on a full queue raises Full.
RECURSIVE handle_disconnect_any_binding(_, _, _, _, _)
handle_disconnect_any_binding(map, inq, conn_id, keys, i) ==
    IF i > Len(keys) THEN [map |-> map, inq |-> inq, exc |-> NoExc]
    ELSE IF Len(inq) >= InQueueCap
    THEN [map |-> DictPop(map, keys[i]), inq |-> inq, exc |-> "Full"]
    ELSE handle_disconnect_any_binding(DictPop(map, keys[i]),
                                       Append(inq, <<conn_id, FmtRouterDown(keys[i])>>),
                                       conn_id, keys, i + 1)

RECURSIVE handle_disconnect(_, _, _, _, _)
handle_disconnect(map, inq, conn_id, keys, i) ==
    IF i > Len(keys) THEN [map |-> map, inq |-> inq, exc |-> NoExc]
    ELSE IF DictGet(map, keys[i], None) # conn_id
    THEN handle_disconnect(map, inq, conn_id, keys, i + 1)
    ELSE IF Len(inq) >= InQueueCap
    THEN [map |-> DictPop(map, keys[i]), inq |-> inq, exc |-> "Full"]
    ELSE handle_disconnect(DictPop(map, keys[i]),
                           Append(inq, <<conn_id, FmtRouterDown(keys[i])>>),
                           conn_id, keys, i + 1)

\* RouterController.send_msg(router_id, msg): the method has no return
\* statement, so it returns None whether or not the message was queued.
send_msg(map, outq, router_id, msg) ==
    LET conn_id == DictGet(map, router_id, None)
    IN  IF conn_id = None THEN [outq |-> outq, exc |-> NoExc, ret |-> None]
        ELSE IF Len(outq) >= OutQueueCap THEN [outq |-> outq, exc |-> "Full", ret |-> "raised"]
        ELSE [outq |-> Append(outq, <<conn_id, msg>>), exc |-> NoExc, ret |-> None]

\* ------------------------------------------------------------ wire messages

Ip1 == <<"10.0.0.1">>
Ip2 == <<"10.0.0.2">>
Prefix1 == <<"10.1.0.0/24">>

RouterObjects ==
    {[msg_type |-> t, routerid |-> r] : t \in {"router_up", "router_down"}, r \in RouterIds}
    \cup {[msg_type |-> "router_up"]}

RouteObjects ==
    {[msg_type |-> "route_up", peer_ip |-> Ip1, prefix |-> Prefix1, next_hop |-> Ip1,
      local_pref |-> lp, as_path |-> <<65001, 65002>>, med |-> 0] : lp \in {100, 200}}
    \cup {[msg_type |-> "route_down", peer_ip |-> Ip1, prefix |-> Prefix1, next_hop |-> Ip1],
          [msg_type |-> "route_down", peer_ip |-> Ip1, prefix |-> Prefix1]}

PeerObjects ==
    {[msg_type |-> "peer_up", peer_ip |-> Ip1, peer_as |-> 65001,
      local_ip |-> Ip2, local_as |-> 65000],
     [msg_type |-> "peer_down", peer_ip |-> Ip1, local_ip |-> Ip2],
     [msg_type |-> "peer_down", peer_ip |-> Ip1]}

LinkObjects ==
    {[msg_type |-> "link_up", src |-> <<"a">>, dst |-> <<"b">>,
      attributes |-> [dp |-> "dp1", port |-> "port1", vlan |-> "vlan1"]],
     [msg_type |-> "link_up", src |-> <<"a">>, dst |-> <<"b">>],
     [msg_type |-> "link_down", src |-> <<"a">>, dst |-> <<"b">>]}

NexthopObjects ==
    {[msg_type |-> "nexthop_up", routerid |-> <<"a">>, nexthop |-> Ip1, pathid |-> PyInt(1)],
     [msg_type |-> "nexthop_up", routerid |-> <<"a">>, nexthop |-> Ip1],
     [msg_type |-> "nexthop_down", routerid |-> <<"a">>, nexthop |-> Ip1]}

\* Objects whose msg_type the controller's dispatch does not list, or that
\* have none.
OtherObjects ==
    {[msg_type |-> "route_add", peer_ip |-> Ip1, prefix |-> Prefix1, next_hop |-> Ip1],
     [msg_type |-> "route_remove", peer_ip |-> Ip1, prefix |-> Prefix1, next_hop |-> Ip1],
     [msg_type |-> "link_state_change", src |-> <<"a">>, dst |-> <<"b">>],
     [msg_type |-> "bogus", routerid |-> <<"a">>],
     [routerid |-> <<"a">>]}

WireObjects ==
    RouterObjects \cup RouteObjects \cup PeerObjects \cup LinkObjects
    \cup NexthopObjects \cup OtherObjects

WireLines ==
    {[kind |-> "garbage"], [kind |-> "array"]}
    \cup {[kind |-> "object", obj |-> o] : o \in WireObjects}

\* ------------------------------------------------------------ actions

\* All orders in which the elements of a finite set can be iterated.
Perms(S) ==
    {f \in [1..Cardinality(S) -> S] : \A x \in S : \E i \in DOMAIN f : f[i] = x}

\* The iteration orders of the topology manager's observer sets.
ObserverOrders == Perms(UNION {observers[TopoManager][e] : e \in EventTypes})

\* The handlers of the applications as load_apps registers them: the
\* topology manager has none, app1 is BgpExample1, app2 listens to routers
\* going down and to routes.
ExampleHandlers ==
    [a \in Apps |->
        IF a = "app1" THEN {"EventRouterUp", "EventRouteAdd"}
        ELSE IF a = "app2" THEN {"EventRouterDown", "EventRouteAdd"}
        ELSE {}]

InitWith(hs) ==
    /\ connection_to_protocol_instance = {}
    /\ router_to_connection = {}
    /\ incomming_queue = <<>>
    /\ outgoing_queue = <<>>
    /\ nodes = {}
    /\ edges = {}
    /\ nexthops = {}
    /\ prefixes = {}
    /\ handlers = hs
    /\ observers = [a \in Apps |-> register_observers(hs, a)]
    /\ events = [a \in Apps |-> <<>>]
    /\ loop = [a \in Apps |-> Waiting]
    /\ running = [a \in Apps |-> TRUE]
    /\ queries = NoQueries
    /\ neo4j = Connected
    /\ last = [op |-> "init"]

Init == InitWith(ExampleHandlers)

SetWorld(w) ==
    /\ nodes' = w.nodes
    /\ edges' = w.edges
    /\ nexthops' = w.nexthops
    /\ prefixes' = w.prefixes
    /\ events' = w.events

\* MessengerServer.buildProtocol / RouterControlProtocol.connectionMade
Connect(c) ==
    /\ c \notin connection_to_protocol_instance
    /\ connection_to_protocol_instance' = connection_to_protocol_instance \cup {c}
    /\ last' = [op |-> "connect", conn |-> c]
    /\ UNCHANGED <<queries, running, neo4j,
                   loop, router_to_connection, incomming_queue, outgoing_queue, nodes, edges,
                   nexthops, prefixes, handlers, observers, events>>

\* The outcomes of processing a line, one for each order in which the
\* observer sets can be iterated.
Outcomes(c, line) ==
    {process_msg(router_to_connection, World, c, line, order) : order \in ObserverOrders}

\* RouterControlProtocol.lineReceived -> MessengerServer.receive ->
\* RouterController.receive_msg, which processes the line at once.
Receive(c, line) ==
    /\ c \in connection_to_protocol_instance
    /\ \E p \in Outcomes(c, line) :
         /\ router_to_connection' = p.map
         /\ SetWorld(p.w)
         /\ last' = [op |-> "receive", conn |-> c, line |-> line, exc |-> p.exc,
                     escaped |-> p.escaped, proc |-> p.proc, handler |-> p.handler]
    /\ UNCHANGED <<queries, running, neo4j,
                   loop, connection_to_protocol_instance, incomming_queue, outgoing_queue,
                   handlers, observers>>

\* RouterControlProtocol.connectionLost -> RouterController.handle_disconnect
ConnectionLost(c) ==
    /\ c \in connection_to_protocol_instance
    /\ connection_to_protocol_instance' = connection_to_protocol_instance \ {c}
    /\ \E keys \in Perms(DictKeys(router_to_connection)) :
         \E h \in {handle_disconnect(router_to_connection, incomming_queue, c, keys, 1)} :
             /\ router_to_connection' = h.map
             /\ incomming_queue' = h.inq
             /\ last' = [op |-> "lost", conn |-> c, exc |-> h.exc,
                         routers |-> KeysOf(router_to_connection, c)]
    /\ UNCHANGED <<queries, running, neo4j,
                   loop, outgoing_queue, nodes, edges, nexthops, prefixes, handlers,
                   observers, events>>

\* One turn of RouterController._recv_loop
RecvLoop ==
    /\ incomming_queue # <<>>
    /\ incomming_queue' = Tail(incomming_queue)
    /\ \E p \in Outcomes(Head(incomming_queue)[1], Head(incomming_queue)[2]) :
         /\ router_to_connection' = p.map
         /\ SetWorld(p.w)
         /\ last' = [op |-> "recv_loop", conn |-> Head(incomming_queue)[1],
                     line |-> Head(incomming_queue)[2], exc |-> p.exc,
                     escaped |-> p.escaped, proc |-> p.proc, handler |-> p.handler]
    /\ UNCHANGED <<queries, running, neo4j,
                   loop, connection_to_protocol_instance, outgoing_queue, handlers,
                   observers>>

\* One turn of RouterController._send_loop: MessengerServer.send writes to
\* the connection if it is still there.
SendLoop ==
    /\ outgoing_queue # <<>>
    /\ outgoing_queue' = Tail(outgoing_queue)
    /\ last' = [op |-> "send_loop", conn |-> Head(outgoing_queue)[1],
                written |-> Head(outgoing_queue)[1] \in connection_to_protocol_instance]
    /\ UNCHANGED <<queries, running, neo4j,
                   loop, connection_to_protocol_instance, router_to_connection, incomming_queue,
                   nodes, edges, nexthops, prefixes, handlers, observers, events>>

\* TopologyManager.send_msg(router_id, msg) -> RouterController.send_msg; the
\* topology manager does not return the controller's result.
SendMsg(router_id, msg) ==
    \E s \in {send_msg(router_to_connection, outgoing_queue, router_id, msg)} :
        /\ outgoing_queue' = s.outq
        /\ last' = [op |-> "send_msg", routerid |-> router_id,
                    bound |-> DictGet(router_to_connection, router_id, None),
                    exc |-> s.exc, ret |-> s.ret, queued |-> s.outq # outgoing_queue]
        /\ UNCHANGED <<queries, running, neo4j,
                   loop, connection_to_protocol_instance, router_to_connection,
                       incomming_queue, nodes, edges, nexthops, prefixes, handlers,
                       observers, events>>

\* An application calls self.send_event_to_observers(ev).
AppSendEvent(a, ev) ==
    /\ \E order \in Perms(Apps) :
         \E d \in {send_event_to_observers(events, observers[a], ev, order)} :
             /\ events' = d.events
             /\ last' = [op |-> "send_event", app |-> a, ev |-> ev, exc |-> d.exc,
                         before |-> events]
    /\ UNCHANGED <<queries, running, neo4j,
                   loop, connection_to_protocol_instance, router_to_connection, incomming_queue,
                   outgoing_queue, nodes, edges, nexthops, prefixes, handlers, observers>>

\* AppBase._event_loop at `event = self.events.get()`: the loop runs, it has
\* no event in hand, and takes the next one with the handlers of its class.
EventGet(a) ==
    /\ loop[a].alive
    /\ loop[a].event = <<>>
    /\ events[a] # <<>>
    /\ \E g \in {queue_get(events[a])} :
         /\ events' = [events EXCEPT ![a] = g.queue]
         /\ loop' = [loop EXCEPT ![a] =
                        while_running(running[a],
                                      Holding(g.item, get_handlers(handlers[a], g.item)))]
         /\ last' = [op |-> "get", app |-> a, ev |-> g.item, before |-> events[a],
                     was |-> loop[a]]
    /\ UNCHANGED <<queries, running, neo4j,
                   connection_to_protocol_instance, router_to_connection, incomming_queue,
                   outgoing_queue, nodes, edges, nexthops, prefixes, handlers, observers>>

\* AppBase._event_loop at `handler(event)`: the for loop calls a handler it
\* has not called yet (the handlers are a set: any order).  A handler that
\* raises leaves the for loop and the try; `except Exception as e: raise
\* Exception(e)` raises again, out of the while loop, and _launch (spawn)
\* prints the traceback: the greenlet is over.
HandlerCall(a, h, raises) ==
    /\ loop[a].alive
    /\ h \in loop[a].todo
    /\ loop' = [loop EXCEPT ![a] =
                    IF raises THEN [@ EXCEPT !.alive = FALSE]
                    ELSE while_running(running[a], Holding(@.event[1], @.todo \ {h}))]
    /\ last' = [op |-> "handler", app |-> a, ev |-> loop[a].event[1], handler |-> h,
                 raised |-> raises, todo |-> loop[a].todo \ {h}]
    /\ UNCHANGED <<queries, running, neo4j,
                   connection_to_protocol_instance, router_to_connection, incomming_queue,
                   outgoing_queue, nodes, edges, nexthops, prefixes, handlers, observers,
                   events>>

\* The lines of the router lifecycle, and text that is no JSON.
LifecycleLines ==
    {[kind |-> "garbage"]} \cup {[kind |-> "object", obj |-> o] : o \in RouterObjects}

\* The controller with its two queues, driven by router lifecycle messages.
Next ==
    \/ \E c \in Conns : Connect(c)
    \/ \E c \in Conns, line \in LifecycleLines : Receive(c, line)
    \/ \E c \in Conns : ConnectionLost(c)
    \/ RecvLoop
    \/ SendLoop
    \/ \E r \in RouterIds, m \in Commands : SendMsg(r, m)

Spec == Init /\ [][Next]_vars

\* The scheduling of the two greenlets: a loop that can take a turn takes it.
FairSpec == Spec /\ WF_vars(RecvLoop) /\ WF_vars(SendLoop)

\* The controller driven by every kind of line.
NextDispatch ==
    \/ \E c \in Conns : Connect(c)
    \/ \E c \in Conns, line \in WireLines : Receive(c, line)
    \/ \E c \in Conns : ConnectionLost(c)
    \/ RecvLoop

SpecDispatch == Init /\ [][NextDispatch]_vars

\* The handlers the loaded applications can have registered: the topology
\* manager has none, the first application listens to EventRouterUp at least
\* and the second to EventRouterUp at most.
HandlerConfigs ==
    {hs \in [Apps -> SUBSET {"EventRouterUp", "EventRouterDown"}] :
        /\ hs[TopoManager] = {}
        /\ "EventRouterUp" \in hs["app1"]
        /\ "EventRouterDown" \notin hs["app2"]}

BusEvents == {Event(t, <<"a">>) : t \in {"EventRouterUp", "EventRouterDown", "EventPeerUp"}}

InitBus == \E hs \in HandlerConfigs : InitWith(hs)

\* The application framework alone: applications emitting and taking events.
NextBus ==
    \/ \E a \in Apps, ev \in BusEvents : AppSendEvent(a, ev)
    \/ \E a \in Apps : EventGet(a)
    \/ \E a \in Apps, h \in HandlerMethods, raises \in BOOLEAN : HandlerCall(a, h, raises)

SpecBus == InitBus /\ [][NextBus]_vars

\* ------------------------------------------------------------ the model layer on a store

MaxUuid == 4

\* What the graph database can hold when the model layer is called: it is a
\* server of its own that other clients write to as well.  Node uids are
\* id(node), relationship uids uuid4 strings, as the store calls set them.
\* Besides border router a, a nexthop, a prefix and the edges between them:
\* a second border router and nexthop, egress links with and without a
\* pathid, routes with AS paths of different lengths, a border router under
\* the address peers name as local_ip, a neighbor and their session.
Stored ==
    [BorderA |->
         [kind |-> "Border", key |-> <<"a">>, uid |-> 1,
          props |-> [routerid |-> <<"a">>, state |-> "up", name |-> "r1"]],
     NexthopN |->
         [kind |-> "Nexthop", key |-> Ip1, uid |-> 2, props |-> [nexthop |-> Ip1, state |-> "up"]],
     PrefixP |->
         [kind |-> "Prefix", key |-> Prefix1, uid |-> 3,
          props |-> [prefix |-> Prefix1, state |-> "up"]],
     EgressAN |->
         [kind |-> "InterEgress", src |-> <<"a">>, dst |-> Ip1,
          props |-> [uid |-> <<"uuid", 1>>, state |-> "up", pathid |-> PyInt(1)]],
     RouteNP |->
         [kind |-> "Route", src |-> Ip1, dst |-> Prefix1,
          props |-> [uid |-> <<"uuid", 2>>, state |-> "up", prefix |-> Prefix1,
                     local_pref |-> 100]],
     BorderB |->
         [kind |-> "Border", key |-> <<"b", "\"">>, uid |-> 4,
          props |-> [routerid |-> <<"b", "\"">>, state |-> "up"]],
     NexthopM |->
         [kind |-> "Nexthop", key |-> Ip2, uid |-> 5, props |-> [nexthop |-> Ip2, state |-> "up"]],
     EgressBN |->
         [kind |-> "InterEgress", src |-> <<"b", "\"">>, dst |-> Ip1,
          props |-> [uid |-> <<"uuid", 3>>, state |-> "up", pathid |-> PyInt(2)]],
     EgressBM |->
         [kind |-> "InterEgress", src |-> <<"b", "\"">>, dst |-> Ip2,
          props |-> [uid |-> <<"uuid", 4>>, state |-> "down"]],
     EgressAM |->
         [kind |-> "InterEgress", src |-> <<"a">>, dst |-> Ip2,
          props |-> [uid |-> <<"uuid", 5>>, state |-> "up", pathid |-> PyInt(3)]],
     RouteNPLong |->
         [kind |-> "Route", src |-> Ip1, dst |-> Prefix1,
          props |-> [uid |-> <<"uuid", 2>>, state |-> "up", prefix |-> Prefix1,
                     as_path |-> <<65001, 65002>>]],
     RouteMP |->
         [kind |-> "Route", src |-> Ip2, dst |-> Prefix1,
          props |-> [uid |-> <<"uuid", 6>>, state |-> "up", prefix |-> Prefix1,
                     as_path |-> <<65003>>]],
     BorderL |->
         [kind |-> "Border", key |-> Ip2, uid |-> 6,
          props |-> [routerid |-> Ip2, state |-> "up"]],
     NeighborQ |->
         [kind |-> "Neighbor", key |-> Ip1, uid |-> 7,
          props |-> [routerid |-> Ip1, peer_ip |-> Ip1, peer_as |-> PyInt(65001), state |-> "up"]],
     SessionLQ |->
         [kind |-> "Session", src |-> Ip2, dst |-> Ip1,
          props |-> [uid |-> <<"uuid", 3>>, state |-> "up"]]]

InitStore ==
    /\ connection_to_protocol_instance = {}
    /\ router_to_connection = {}
    /\ incomming_queue = <<>>
    /\ outgoing_queue = <<>>
    /\ nodes \in SUBSET {Stored.BorderA, Stored.NexthopN, Stored.PrefixP}
    /\ edges \in {es \in SUBSET {Stored.EgressAN, Stored.RouteNP} :
                     \A e \in es : \E n, m \in nodes : n.key = e.src /\ m.key = e.dst}
    /\ nexthops = {}
    /\ prefixes = {}
    /\ handlers = ExampleHandlers
    /\ observers = [a \in Apps |-> register_observers(ExampleHandlers, a)]
    /\ events = [a \in Apps |-> <<>>]
    /\ loop = [a \in Apps |-> Waiting]
    /\ running = [a \in Apps |-> TRUE]
    /\ queries = NoQueries
    /\ neo4j = Connected
    /\ last = [op |-> "init"]

\* A call on the model layer: the store after it and what the call was,
\* gave and found.  first holds the uid the step before returned when that
\* step was the same call.
StoreStep(op, kind, key, kwargs, p, uid) ==
    /\ nodes' = p.w.nodes
    /\ edges' = p.w.edges
    /\ last' = [op |-> op, kind |-> kind, key |-> key, kwargs |-> kwargs, exc |-> p.exc,
                 ok |-> p.ok, uid |-> uid, nodes |-> nodes, edges |-> edges,
                 again |-> /\ last.op = op
                           /\ last.kind = kind /\ last.key = key /\ last.kwargs = kwargs,
                 first |-> IF last.op = op THEN last.uid ELSE {}]
    /\ UNCHANGED <<queries, running, neo4j,
                   connection_to_protocol_instance, router_to_connection, incomming_queue,
                   outgoing_queue, nexthops, prefixes, handlers, observers, events, loop>>

NodeKeys == {<<"Border", <<"a">>>>, <<"Border", <<"b", "\"">>>>, <<"Nexthop", Ip1>>,
             <<"Prefix", Prefix1>>}

NodeKwargs == {[state |-> "up"], [state |-> "down"], [name |-> "r2"]}

\* Border / Nexthop / Prefix .get_or_create(key, **kwargs)
GetOrCreateNode(kind, key, kwargs) ==
    \E p \in {IF kind = "Border" THEN Border_get_or_create(World, key, kwargs)
              ELSE IF kind = "Nexthop" THEN Nexthop_get_or_create(World, key, kwargs)
              ELSE Prefix_get_or_create(World, key, kwargs)} :
        StoreStep("node_get_or_create", kind, key, kwargs, p,
                  IF p.ok THEN {n.uid : n \in MatchNode(p.w.nodes, kind, key)} ELSE {})

EgressKwargs ==
    {[state |-> "down"], [state |-> "up", pathid |-> PyInt(1)],
     [pathid |-> PyStr(<<"2">>)], [state |-> "up", pathid |-> PyStr(<<"x">>)]}

\* InterEgress.get_or_create(border, nexthop, **properties)
GetOrCreateEgress(border, nexthop, kwargs) ==
    /\ UIDProperty_generate(World)[2] <= MaxUuid
    /\ \E p \in {Edge_get_or_create(World, "InterEgress", "Border", border,
                                     "Nexthop", nexthop, kwargs)} :
         StoreStep("edge_get_or_create", "InterEgress", <<border, nexthop>>, kwargs, p,
                   IF p.ok
                   THEN {e.props.uid : e \in MatchEdge(p.w.edges, "InterEgress", border, nexthop)}
                   ELSE {})

RouteKwargs == {[state |-> "up", local_pref |-> 100], [state |-> "down"], [local_pref |-> -1]}

\* Route.get_or_create(neighbor, prefix, **properties)
GetOrCreateRoute(neighbor, prefix, kwargs) ==
    /\ UIDProperty_generate(World)[2] <= MaxUuid
    /\ \E p \in {Route_get_or_create(World, neighbor, prefix, kwargs)} :
         StoreStep("edge_get_or_create", "Route", <<neighbor, prefix>>, kwargs, p,
                   IF p.ok
                   THEN {e.props.uid : e \in MatchEdge(p.w.edges, "Route", neighbor, prefix)}
                   ELSE {})

UpdateKwargs ==
    {[state |-> "down"], [state |-> "up"], [label |-> PyInt(5)], [label |-> PyStr(<<"x">>)]}

\* Border.update(routerid, properties)
UpdateBorder(routerid, properties) ==
    \E p \in {Border_update(World, routerid, properties)} :
        StoreStep("node_update", "Border", routerid, properties, p,
                  IF p.ok THEN {n.uid : n \in MatchNode(p.w.nodes, "Border", routerid)}
                  ELSE {})

\* Route.update(nexthop, prefix, **properties)
UpdateRoute(nexthop, prefix, properties) ==
    \E p \in {Route_update(World, nexthop, prefix, properties)} :
        StoreStep("edge_update", "Route", <<nexthop, prefix>>, properties, p, {})

PutKwargs ==
    {<<"Border", [routerid |-> <<"a">>, state |-> "up"]>>,
     <<"Border", [state |-> "up"]>>,
     <<"Border", [routerid |-> <<"a">>, label |-> PyStr(<<"x">>)]>>,
     <<"InterEgress", [src |-> 1, dst |-> 2, pathid |-> PyInt(1)]>>,
     <<"InterEgress", [src |-> 1, dst |-> 2, state |-> "down"]>>}

\* entity = Kind(**kwargs) and, when that raised nothing, entity.put()
ConstructAndPut(kind, kwargs) ==
    \E exc \in {Model_init(kind, kwargs)} :
        \E p \in {IF exc # NoExc THEN Result(World, exc, FALSE)
                  ELSE IF kind \in NodeKinds THEN Node_put(World, kind, kwargs.routerid, kwargs)
                  ELSE Edge_put(World, kind, kwargs)} :
            StoreStep("put", kind, <<>>, kwargs, p, {})

\* PropertyOrder.ASCENDING and PropertyOrder.DESCENDING
ASCENDING == ""

DESCENDING == "DESC"

\* query.PropertyOrder(name, direction=None, func=None)
PropertyOrder(name, direction, func) ==
    [name |-> name, direction |-> IF direction = None THEN ASCENDING ELSE direction,
     func |-> func]

\* The properties declared as ListProperty.
ListProperties == {"as_path"}

\* -prop: Property.__neg__, and ListProperty.__neg__ with func='length'
Property_neg(name) ==
    PropertyOrder(name, DESCENDING, IF name \in ListProperties THEN "length" ELSE None)

\* +prop: Property.__pos__, and ListProperty.__pos__ with func='length'
Property_pos(name) ==
    PropertyOrder(name, None, IF name \in ListProperties THEN "length" ELSE None)

\* What ORDER BY sorts a stored entity on: the property, or its length under
\* func 'length'; has is FALSE for the null of an entity without it.
OrderKey(props, order) ==
    IF order.name \notin DOMAIN props THEN [has |-> FALSE, v |-> 0]
    ELSE [has |-> TRUE,
          v |-> IF order.func = "length" THEN Len(props[order.name])
                ELSE props[order.name][2]]

\* ORDER BY of the store: a may come before b. null sorts last ascending
\* and first descending.
OrderPrecedes(a, b, order) ==
    IF order.direction = DESCENDING THEN ~a.has \/ (b.has /\ a.v >= b.v)
    ELSE ~b.has \/ (a.has /\ a.v <= b.v)

\* The orders in which the store can return the records S under ORDER BY.
OrderBy(S, order) ==
    {f \in Perms(S) :
        \A i, j \in DOMAIN f :
            i < j => OrderPrecedes(OrderKey(f[i].props, order),
                                   OrderKey(f[j].props, order), order)}

\* list(Kind.query().order(order).fetch()) for an Edge kind: _to_cypher
\* gives MATCH (src)-[Kind :Kind]->(dst) RETURN .. ORDER BY .., and fetch
\* turns each record into a model instance, which raises AttributeError at
\* the first one that lacks a required property.
Edge_query_fetch(w, kind, order) ==
    {IF \E i \in DOMAIN f : ~(RequiredProperties(kind) \subseteq DOMAIN f[i].props)
     THEN [exc |-> "AttributeError", results |-> <<>>]
     ELSE [exc |-> NoExc, results |-> f] :
        f \in OrderBy({e \in w.edges : e.kind = kind}, order)}

\* The synthetic fields of a Path that the query's RETURN builds from the
\* egress link and the route of the match.
PathFields(m) ==
    [props |-> [name \in {"inter_bw"} \cap
                          (IF "bandwidth" \in DOMAIN m.egress.props THEN {"inter_bw"} ELSE {})
                   |-> m.egress.props.bandwidth],
     path |-> m]

\* list(Path.query(routerid, prefix, for_peer).order(order).fetch()):
\* Query.order only appends to self.orders, and _to_cypher builds the same
\* text as without an order before it adds ORDER BY.
Path_query_fetch(w, routerid, prefix, for_peer, order) ==
    LET q == Path_fetch(w, routerid, prefix, for_peer)
    IN  IF q.exc # NoExc THEN {[exc |-> q.exc, results |-> <<>>]}
        ELSE {[exc |-> NoExc, results |-> f] :
                 f \in OrderBy({PathFields(m) : m \in q.paths}, order)}

\* list(Path.query(routerid, prefix, for_peer).fetch())
QueryPath(routerid, prefix, for_peer) ==
    \E q \in {Path_fetch(World, routerid, prefix, for_peer)} :
        /\ last' = [op |-> "path_query", routerid |-> routerid, prefix |-> prefix,
                     for_peer |-> for_peer, exc |-> q.exc, paths |-> q.paths]
        /\ UNCHANGED <<queries, running, neo4j,
                   connection_to_protocol_instance, router_to_connection,
                       incomming_queue, outgoing_queue, nodes, edges, nexthops, prefixes,
                       handlers, observers, events, loop>>

QueryOrders ==
    {<<"InterEgress", Property_neg("pathid")>>, <<"InterEgress", Property_pos("pathid")>>,
     <<"Route", Property_neg("as_path")>>, <<"Path", Property_neg("inter_bw")>>}

\* list(Kind.query(..).order(order).fetch()), the Path query being the one
\* for prefix from border a.
QueryOrdered(kind, order) ==
    \E q \in IF kind = "Path"
             THEN Path_query_fetch(World, <<"a">>, Prefix1, FALSE, order)
             ELSE Edge_query_fetch(World, kind, order) :
        /\ last' = [op |-> "ordered_query", kind |-> kind, order |-> order,
                     exc |-> q.exc, results |-> q.results]
        /\ UNCHANGED <<queries, running, neo4j,
                   connection_to_protocol_instance, router_to_connection,
                       incomming_queue, outgoing_queue, nodes, edges, nexthops, prefixes,
                       handlers, observers, events, loop>>

NextStore ==
    \/ \E k \in NodeKeys, kwargs \in NodeKwargs : GetOrCreateNode(k[1], k[2], kwargs)
    \/ \E r \in RouterIds, kwargs \in EgressKwargs : GetOrCreateEgress(r, Ip1, kwargs)
    \/ \E kwargs \in RouteKwargs : GetOrCreateRoute(Ip1, Prefix1, kwargs)
    \/ \E r \in RouterIds, kwargs \in UpdateKwargs : UpdateBorder(r, kwargs)
    \/ \E kwargs \in {[state |-> "down"]} : UpdateRoute(Ip1, Prefix1, kwargs)
    \/ \E k \in PutKwargs : ConstructAndPut(k[1], k[2])
    \/ \E r \in RouterIds \cup {Ip1}, for_peer \in BOOLEAN : QueryPath(r, Prefix1, for_peer)

SpecStore == InitStore /\ [][NextStore]_vars

\* ------------------------------------------------------------ queries on a store

\* The queries run on a store that holds two border routers, two nexthops
\* and a prefix, and any of the egress links and routes between them.
InitQuery ==
    /\ connection_to_protocol_instance = {}
    /\ router_to_connection = {}
    /\ incomming_queue = <<>>
    /\ outgoing_queue = <<>>
    /\ nodes = {Stored.BorderA, Stored.BorderB, Stored.NexthopN, Stored.NexthopM,
                Stored.PrefixP}
    /\ edges \in SUBSET {Stored.EgressAN, Stored.EgressBN, Stored.EgressBM, Stored.EgressAM,
                         Stored.RouteNP, Stored.RouteNPLong, Stored.RouteMP}
    /\ ~({Stored.RouteNP, Stored.RouteNPLong} \subseteq edges)
    /\ nexthops = {}
    /\ prefixes = {}
    /\ handlers = ExampleHandlers
    /\ observers = [a \in Apps |-> register_observers(ExampleHandlers, a)]
    /\ events = [a \in Apps |-> <<>>]
    /\ loop = [a \in Apps |-> Waiting]
    /\ running = [a \in Apps |-> TRUE]
    /\ queries = NoQueries
    /\ neo4j = Connected
    /\ last = [op |-> "init"]

NextQuery ==
    \/ \E k \in QueryOrders : QueryOrdered(k[1], k[2])
    \/ \E r \in RouterIds \cup {Ip1}, for_peer \in BOOLEAN : QueryPath(r, Prefix1, for_peer)

SpecQuery == InitQuery /\ [][NextQuery]_vars

\* ------------------------------------------------------------ the controller on a store

\* The kinds of the end nodes of a relationship of the kind.
EndKinds(kind) ==
    IF kind = "InterEgress" THEN <<"Border", "Nexthop">>
    ELSE IF kind = "Route" THEN <<"Nexthop", "Prefix">>
    ELSE IF kind = "Session" THEN <<"Border", "Neighbor">>
    ELSE <<"Border", "Border">>

\* The controller starts on an empty store (TopologyManager.__init__ clears
\* it); the database is a server other clients write to afterwards, so the
\* messages can find these entities stored.
InitTopo ==
    /\ connection_to_protocol_instance = {}
    /\ router_to_connection = {}
    /\ incomming_queue = <<>>
    /\ outgoing_queue = <<>>
    /\ nodes \in {{Stored.BorderA, Stored.BorderL, Stored.NexthopN, Stored.PrefixP,
                  Stored.NeighborQ},
                 {Stored.BorderA, Stored.BorderL, Stored.NexthopN, Stored.PrefixP}}
    /\ edges \in {es \in SUBSET {Stored.EgressAN, Stored.RouteNP, Stored.SessionLQ} :
                     \A e \in es : \E n, m \in nodes :
                         /\ n.kind = EndKinds(e.kind)[1] /\ n.key = e.src
                         /\ m.kind = EndKinds(e.kind)[2] /\ m.key = e.dst}
    /\ nexthops = {}
    /\ prefixes = {}
    /\ handlers = ExampleHandlers
    /\ observers = [a \in Apps |-> register_observers(ExampleHandlers, a)]
    /\ events = [a \in Apps |-> <<>>]
    /\ loop = [a \in Apps |-> Waiting]
    /\ running = [a \in Apps |-> TRUE]
    /\ queries = NoQueries
    /\ neo4j = Connected
    /\ last = [op |-> "init"]

\* The up and down messages about the stored entities, and about a router
\* and a link end the store does not hold.
TopoLines ==
    {[kind |-> "object", obj |-> o] :
        o \in {x \in RouterObjects : /\ "routerid" \in DOMAIN x
                                      /\ (x.routerid = <<"a">> \/ x.msg_type = "router_down")}
              \cup RouteObjects
              \cup PeerObjects
              \cup {o \in LinkObjects : o.msg_type = "link_down"}
              \cup NexthopObjects}

\* The controller receiving these lines on one connection, while the uids
\* the store has handed out stay below the bound.
NextTopo ==
    \/ Connect("c1")
    \/ \E line \in TopoLines :
          UIDProperty_generate(World)[2] <= MaxUuid /\ Receive("c1", line)
    \/ ConnectionLost("c1")
    \/ RecvLoop

SpecTopo == InitTopo /\ [][NextTopo]_vars

\* ------------------------------------------------------------ start-up

\* An exec_query that answers without a driver: what Neo4J.exec_query, which
\* opens self.driver.session(), does not do.
exec_query_without_driver(driver) == NoExc

\* Neo4J.exec_query: with self.driver.session() as session; on a driver that
\* is None the attribute lookup raises AttributeError, which is raised on.
exec_query(driver) == IF driver = None THEN "AttributeError" ELSE NoExc

InitStartup ==
    /\ connection_to_protocol_instance = {}
    /\ router_to_connection = {}
    /\ incomming_queue = <<>>
    /\ outgoing_queue = <<>>
    /\ nodes = {}
    /\ edges = {}
    /\ nexthops = {}
    /\ prefixes = {}
    /\ handlers = ExampleHandlers
    /\ observers = [a \in Apps |-> register_observers(ExampleHandlers, a)]
    /\ events = [a \in Apps |-> <<>>]
    /\ loop = [a \in Apps |-> Waiting]
    /\ running = [a \in Apps |-> TRUE]
    /\ queries = NoQueries
    /\ neo4j = Unconnected
    /\ last = [op |-> "init"]

StartupStep(op, exc) ==
    /\ last' = [op |-> op, exc |-> exc]
    /\ UNCHANGED <<queries, running,
                   connection_to_protocol_instance, router_to_connection, incomming_queue,
                   outgoing_queue, nodes, edges, nexthops, prefixes, handlers, observers,
                   events, loop>>

\* One turn of the loop of Neo4J.__init__: GraphDatabase.driver(..) either
\* gives the driver, which is kept, or raises, and then time.sleep(1); the
\* loop goes on in both cases.
ConnectAttempt(succeeds) ==
    /\ neo4j.pc = "connect"
    /\ neo4j.attempts < ConnectAttempts
    /\ neo4j' = [neo4j EXCEPT !.attempts = @ + 1,
                              !.driver = IF succeeds THEN "driver" ELSE @,
                              !.sleeps = IF succeeds THEN @ ELSE @ + 1]
    /\ StartupStep("attempt", IF succeeds THEN NoExc ELSE "caught")

\* After the loop: if not self.driver: print('Failed to connect to Neo4j'),
\* and Neo4J.__init__ returns.
ConnectDone ==
    /\ neo4j.pc = "connect"
    /\ neo4j.attempts = ConnectAttempts
    /\ neo4j' = [neo4j EXCEPT !.pc = "constraints"]
    /\ StartupStep(IF neo4j.driver = None THEN "print_failed" ELSE "connected", NoExc)

\* model.initialize goes on to Border.create_constraints(), whose first
\* exec_query raises through TopologyManager.__init__, load_apps and main
\* when there is no driver; with one the manager is constructed.
CreateConstraints ==
    /\ neo4j.pc = "constraints"
    /\ \E exc \in {exec_query(neo4j.driver)} :
         /\ neo4j' = [neo4j EXCEPT !.pc = IF exc = NoExc THEN "started" ELSE "failed"]
         /\ StartupStep("create_constraints", exc)

NextStartup ==
    \/ \E succeeds \in BOOLEAN : ConnectAttempt(succeeds)
    \/ ConnectDone
    \/ CreateConstraints

\* The start-up is straight-line code: it takes its next step.
SpecStartup == InitStartup /\ [][NextStartup]_vars /\ WF_vars(NextStartup)

\* ------------------------------------------------------------ properties

\* The line carries an object of message type t that names a router id.
IsRouterLine(line, t) ==
    /\ line.kind = "object"
    /\ Get(line.obj, "msg_type") = t
    /\ Has(line.obj, "routerid")

C2_RouterUpBindsToItsConnection ==
    /\ (last.op = "receive" /\ IsRouterLine(last.line, "router_up")) =>
           {p \in router_to_connection : p[1] = last.line.obj.routerid}
               = {<<last.line.obj.routerid, last.conn>>}
    /\ (last.op = "send_msg" /\ last.bound \in Conns /\ last.exc = NoExc) =>
           /\ outgoing_queue # <<>>
           /\ outgoing_queue[Len(outgoing_queue)][1] = last.bound

C4_SendReportsFailureAsFalse ==
    last.op = "send_msg" =>
        /\ last.bound \notin Conns =>
               (~last.queued /\ last.exc = NoExc /\ last.ret = "False")
        /\ last.bound \in Conns => last.ret # "False"

\* The line is no valid JSON, or what it decodes to has no msg_type or one
\* that the spec's dispatch table does not list.
IsMalformed(line) ==
    LET j == json_loads(line)
    IN  \/ j.exc # NoExc
        \/ ~j.isobj
        \/ Get(j.obj, "msg_type") \notin SpecMsgTypes

\* C5: a step that processes a line that is no valid JSON, or has no or an
\* unrecognized msg_type, lets no exception leave the controller, leaves the
\* router-to-connection dict, the store and every event queue as they were,
\* and the connection the line came in on stays connected.
C5_MalformedLineIsDropped ==
    [][(last'.op \in {"receive", "recv_loop"} /\ IsMalformed(last'.line)) =>
           /\ last'.escaped = NoExc
           /\ UNCHANGED <<queries, running, neo4j,
                          loop, router_to_connection, nodes, edges, nexthops, prefixes, events,
                          connection_to_protocol_instance>>
           /\ last'.op = "receive" => last'.conn \in connection_to_protocol_instance'
      ]_vars

\* C5, a state where the case happens: text that is no JSON has just been
\* processed while a router id was bound to the connection it came in on.
C5_MalformedLineProcessed ==
    /\ last.op = "receive"
    /\ last.exc = "JSONDecodeError"
    /\ KeysOf(router_to_connection, last.conn) # {}

\* The method of the controller the spec's dispatch table gives a msg_type.
SpecHandler(msg_type) ==
    IF msg_type \in {"router_up", "router_down"} THEN "router"
    ELSE IF msg_type \in {"peer_up", "peer_down"} THEN "peer"
    ELSE IF msg_type \in {"route_up", "route_add", "route_down", "route_remove"} THEN "update"
    ELSE IF msg_type \in {"link_up", "link_down", "link_state_change"} THEN "link"
    ELSE "nexthop"

\* msg_type values the controller's dispatch lists.
CodeMsgTypes ==
    {"router_up", "router_down", "peer_up", "peer_down", "route_up", "route_down",
     "link_up", "link_down", "nexthop_up", "nexthop_down"}

\* C6 (as the code has it): a message whose msg_type is one of router_up,
\* router_down, peer_up, peer_down, route_up, route_down, link_up, link_down,
\* nexthop_up, nexthop_down is handed to the method of its lifecycle; a
\* route_add, route_remove or link_state_change is handed to none and is
\* dropped like an unrecognized message.
C6_CodeListedTypeSelectsHandler ==
    (last.op = "receive" /\ last.line.kind = "object") =>
        LET msg_type == Get(last.line.obj, "msg_type")
        IN  /\ msg_type \in CodeMsgTypes => last.proc = SpecHandler(msg_type)
            /\ msg_type \notin CodeMsgTypes =>
                   (last.proc = "none" /\ last.handler = "none" /\ last.exc = NoExc)

\* C6, a state where the case happens: a route_add has just been processed
\* and was handed to no method.
C6_RouteAddDropped ==
    /\ last.op = "receive"
    /\ last.line.kind = "object"
    /\ Get(last.line.obj, "msg_type") = "route_add"
    /\ last.proc = "none"

\* C6 as stated: a message whose msg_type the spec's dispatch table lists is
\* handed to the handler the table gives for it; none is dropped as
\* unrecognized.
C6_ListedTypeSelectsHandler ==
    (/\ last.op = "receive"
     /\ last.line.kind = "object"
     /\ Get(last.line.obj, "msg_type") \in SpecMsgTypes)
    => last.proc = SpecHandler(last.line.obj.msg_type)

\* The stored Router entity of router id r has the given state.
RouterHasState(ns, r, state) ==
    \E n \in ns : n.kind = "Border" /\ n.key = r /\ n.props.state = state

\* C7: after a router_up for router id R has been processed, the stored
\* Router entity of R has state "up".
C7_RouterUpStoresStateUp ==
    (last.op = "receive" /\ IsRouterLine(last.line, "router_up"))
    => RouterHasState(nodes, last.line.obj.routerid, "up")

\* The number of events of the given type on a queue.
CountEvents(q, type) == Cardinality({i \in DOMAIN q : q[i].type = type})

\* C8: when a router_up for R is processed and then a router_down for R from
\* the same connection, the stored Router entity of R has state "down" and
\* exactly one EventRouterDown has been put on the queue of each application
\* that observes that event type.
C8_RouterDownStoresDownAndEmitsOnce ==
    [][(/\ last.op = "receive" /\ IsRouterLine(last.line, "router_up")
        /\ last'.op = "receive" /\ IsRouterLine(last'.line, "router_down")
        /\ last'.conn = last.conn
        /\ last'.line.obj.routerid = last.line.obj.routerid)
       => /\ RouterHasState(nodes', last'.line.obj.routerid, "down")
          /\ \A a \in Apps :
                 "EventRouterDown" \in handlers[a] /\ a # TopoManager =>
                     CountEvents(events'[a], "EventRouterDown")
                         = CountEvents(events[a], "EventRouterDown") + 1
      ]_vars

\* C9: after a route_up carrying local_pref, as_path and med has been
\* processed, a Route edge to the prefix is in the store with state up, the
\* local_pref and the as_path of the message, and an EventRouteAdd is on the
\* queue of every application registered for that event type.
C9_RouteUpStoresRouteAndEmits ==
    (/\ last.op = "receive"
     /\ last.line.kind = "object"
     /\ Get(last.line.obj, "msg_type") = "route_up"
     /\ {"local_pref", "as_path", "med", "prefix"} \subseteq DOMAIN last.line.obj)
    => /\ \E e \in edges :
              /\ e.kind = "Route"
              /\ e.dst = last.line.obj.prefix
              /\ e.props.state = "up"
              /\ e.props.local_pref = last.line.obj.local_pref
              /\ e.props.as_path = last.line.obj.as_path
       /\ \A a \in Apps :
              "EventRouteAdd" \in handlers[a] /\ a # TopoManager =>
                  CountEvents(events[a], "EventRouteAdd") >= 1

\* The applications that observe events of the given type emitted by a: every
\* other application that has a handler for the type.
ObserversOf(a, type) == {b \in Apps \ {a} : type \in handlers[b]}

\* C10 (as the code has it): send_event_to_observers(E) on application A
\* changes no queue but those of the observers of E's type, A's own never;
\* each observer's queue is as before or has E appended once; when every
\* observer's queue has room each of them has E appended and nothing is
\* raised; otherwise Full is raised at the first full queue and the
\* observers after it in the iteration are left out.
C10_DeliveryToObserversOnly ==
    last.op = "send_event" =>
        LET obs == ObserversOf(last.app, last.ev.type)
            room == \A b \in obs : Len(last.before[b]) < EventQueueCap
        IN  /\ \A b \in Apps \ obs : events[b] = last.before[b]
            /\ \A b \in obs : events[b] \in {last.before[b], Append(last.before[b], last.ev)}
            /\ room => /\ last.exc = NoExc
                       /\ \A b \in obs : events[b] = Append(last.before[b], last.ev)
            /\ ~room => /\ last.exc = "Full"
                        /\ \E b \in obs : events[b] = last.before[b]

\* C10, a state where the case happens: an application that has a handler
\* for the event's type itself has just emitted it, every observer has it
\* and the sender's own queue is as before.
C10_DeliveredNotToSender ==
    /\ last.op = "send_event"
    /\ last.ev.type \in handlers[last.app]
    /\ ObserversOf(last.app, last.ev.type) # {}
    /\ \A b \in ObserversOf(last.app, last.ev.type) :
           events[b] = Append(last.before[b], last.ev)
    /\ events[last.app] = last.before[last.app]

\* C10 as stated: send_event_to_observers(E) on A puts E on the queue of
\* every observer of E's type and on no other queue.
C10_DeliveryToEveryObserver ==
    last.op = "send_event" =>
        LET obs == ObserversOf(last.app, last.ev.type)
        IN  /\ \A b \in Apps \ obs : events[b] = last.before[b]
            /\ \A b \in obs : events[b] = Append(last.before[b], last.ev)

\* C11: when a handler raises while the event loop has event E in hand, the
\* loop goes on: it still runs, the handlers of E it has not called yet are
\* still to be called, and with none left it is back at taking events.
C11_HandlerExceptionIsContained ==
    last.op = "handler" /\ last.raised =>
        loop[last.app] = Holding(last.ev, last.todo)

\* C12: an application's event loop takes events one at a time in the order
\* they were put on its queue, and calls every handler registered for the
\* event's class before it takes the next one: a step that takes an event
\* takes the head of the queue and leaves the tail, is taken with no handler
\* of an earlier event left to call, and leaves all the handlers of the
\* event's class to call; an event in hand is let go only by the return of
\* the last handler left, each call taking one handler off the list.
C12_EventsInOrderEachFullyHandled ==
    [][\A a \in Apps :
          /\ Len(events'[a]) < Len(events[a]) =>
                /\ events'[a] = Tail(events[a])
                /\ loop[a] = Waiting
                /\ loop'[a] = Holding(Head(events[a]),
                                      IF Head(events[a]).type \in handlers[a]
                                      THEN HandlerMethods ELSE {})
          /\ loop[a].event # <<>> /\ loop'[a] # loop[a] =>
                /\ Len(events'[a]) >= Len(events[a])
                /\ \E h \in loop[a].todo :
                      \/ loop'[a] = [loop[a] EXCEPT !.alive = FALSE]
                      \/ /\ loop[a].todo # {h}
                         /\ loop'[a] = [loop[a] EXCEPT !.todo = @ \ {h}]
                      \/ /\ loop[a].todo = {h}
                         /\ loop'[a] = Waiting]_vars

\* C12, a state where the case happens: the loop has just taken an event
\* that has handlers from a queue holding two different events, after the
\* last handler of the event before had returned.
C12_TookOldestOfTwo ==
    /\ last.op = "get"
    /\ Len(last.before) >= 2
    /\ last.before[1] # last.before[2]
    /\ last.ev = last.before[1]
    /\ loop[last.app].todo = HandlerMethods

\* C13: no application's queue ever holds more events than its capacity
\* (EventQueueCap stands for the 512 of the code), and emitting does not
\* wait: the call is a step that can always be taken, and when an observer's
\* queue is full it ends at once with Full, that observer's queue as it was.
C13_QueueBoundedEmitNeverBlocks ==
    /\ \A a \in Apps : Len(events[a]) <= EventQueueCap
    /\ \A a \in Apps, ev \in BusEvents : ENABLED AppSendEvent(a, ev)
    /\ last.op = "send_event" =>
          /\ last.exc \in {NoExc, "Full"}
          /\ (\E b \in ObserversOf(last.app, last.ev.type) :
                  Len(last.before[b]) >= EventQueueCap) <=> last.exc = "Full"
          /\ \A b \in Apps : Len(last.before[b]) >= EventQueueCap =>
                  events[b] = last.before[b]

\* C13, a state where the case happens: an event was emitted while an
\* observer's queue was at its capacity, and the call ended with Full.
C13_EmittedOnFullQueue ==
    /\ last.op = "send_event"
    /\ last.exc = "Full"
    /\ \E b \in ObserversOf(last.app, last.ev.type) :
           /\ Len(last.before[b]) = EventQueueCap
           /\ events[b] = last.before[b]

\* C14: when an application emits E while the queue of one observer is
\* full, every other observer of E's class (one whose queue has room) still
\* has E put on its queue.
C14_FullQueueDoesNotStopOthers ==
    last.op = "send_event" =>
        \A b \in ObserversOf(last.app, last.ev.type) :
            Len(last.before[b]) < EventQueueCap =>
                events[b] = Append(last.before[b], last.ev)

\* Every keyword has a value its property takes.
ValidKwargs(kwargs) == \A k \in DOMAIN kwargs : Property_validate(k, kwargs[k]).ok

\* The entities stored under the natural key of the last model-layer call,
\* in the given nodes and relationships.
StoredUnder(ns, es) ==
    IF last.op \in {"node_get_or_create", "node_update"}
    THEN MatchNode(ns, last.kind, last.key)
    ELSE MatchEdge(es, last.kind, last.key[1], last.key[2])

\* C15: for a node and for an edge, get_or_create called twice with the
\* same natural key and properties gives the same stored uid both times and
\* leaves exactly one stored entity under the key (for an edge: when the
\* first call gave an entity, its end nodes being stored).
C15_GetOrCreateTwiceSameEntity ==
    /\ last.op = "node_get_or_create" /\ last.again =>
          /\ last.exc = NoExc
          /\ Cardinality(last.uid) = 1 /\ last.uid = last.first
          /\ Cardinality(StoredUnder(nodes, edges)) = 1
    /\ last.op = "edge_get_or_create" /\ last.again /\ last.first # {} =>
          /\ last.exc = NoExc
          /\ last.uid = last.first
          /\ Cardinality(StoredUnder(nodes, edges)) = 1

\* C16: get_or_create with valid properties on a natural key that is
\* stored already raises nothing, leaves the entity with the given
\* properties applied, and leaves every stored property that was not given
\* (state, name, ...; the uid aside) with the value it had.
C16_GetOrCreateOnExistingMerges ==
    last.op \in {"node_get_or_create", "edge_get_or_create"}
    /\ StoredUnder(last.nodes, last.edges) # {} /\ ValidKwargs(last.kwargs) =>
        /\ last.exc = NoExc
        /\ \A old \in StoredUnder(last.nodes, last.edges) :
              \E new \in StoredUnder(nodes, edges) :
                  /\ \A k \in DOMAIN last.kwargs :
                        /\ k \in DOMAIN new.props
                        /\ new.props[k] = Validated(last.kwargs)[k]
                  /\ \A k \in DOMAIN old.props \ (DOMAIN last.kwargs \cup {"uid"}) :
                        /\ k \in DOMAIN new.props
                        /\ new.props[k] = old.props[k]

\* C17: update on a natural key under which nothing is stored returns no
\* entity, raises nothing and leaves the nodes and the relationships as
\* they were.
C17_UpdateOfMissingKeyIsNoOp ==
    last.op \in {"node_update", "edge_update"} /\ StoredUnder(last.nodes, last.edges) = {} =>
        /\ last.exc = NoExc
        /\ ~last.ok
        /\ nodes = last.nodes
        /\ edges = last.edges

\* C18: construction, node and edge get_or_create and update given a value
\* that its property's validation does not take raise the validation error
\* (ValueError) and leave the store as it was.
C18_InvalidValueRejectedBeforeStore ==
    last.op \in {"put", "node_get_or_create", "edge_get_or_create", "node_update"}
    /\ DOMAIN last.kwargs \subseteq
           (IF last.kind \in NodeKinds THEN NodeProperties(last.kind)
            ELSE EdgeProperties(last.kind))
    /\ ~ValidKwargs(last.kwargs) =>
        /\ last.exc = "ValueError"
        /\ nodes = last.nodes
        /\ edges = last.edges

\* C19: constructing or saving (put, get_or_create) an entity without a
\* value for a required property that has no default raises an error and
\* stores nothing; an InterEgress saved without pathid is such a case.
C19_MissingRequiredPropertyFails ==
    last.op \in {"put", "edge_get_or_create"}
    /\ ~(RequiredProperties(last.kind) \subseteq DOMAIN last.kwargs) =>
        /\ last.exc # NoExc
        /\ nodes = last.nodes
        /\ edges = last.edges

\* The entities a returned path goes through.
PathEntities(path) ==
    {path.src, path.i, path.b, path.dst, path.egress, path.route}

C22_OrderedFetchFirstIsExtreme ==
    last.op = "ordered_query" =>
        /\ last.exc = NoExc
        /\ \A i \in DOMAIN last.results :
              OrderKey(last.results[i].props, last.order).has =>
                  /\ OrderKey(last.results[1].props, last.order).has
                  /\ IF last.order.direction = DESCENDING
                     THEN OrderKey(last.results[1].props, last.order).v
                              >= OrderKey(last.results[i].props, last.order).v
                     ELSE OrderKey(last.results[1].props, last.order).v
                              <= OrderKey(last.results[i].props, last.order).v

\* The end nodes the last edge call names are both stored before it: put
\* names them by uid, get_or_create by natural key.
EndsStored ==
    IF last.op = "put"
    THEN \E n, m \in last.nodes : n.uid = last.kwargs.src /\ m.uid = last.kwargs.dst
    ELSE \E n, m \in last.nodes :
            /\ n.kind = (IF last.kind = "InterEgress" THEN "Border" ELSE "Nexthop")
            /\ n.key = last.key[1]
            /\ m.kind = (IF last.kind = "InterEgress" THEN "Nexthop" ELSE "Prefix")
            /\ m.key = last.key[2]

\* C23: an edge put or get_or_create with valid properties gives no entity
\* and leaves the nodes and edges as they were when an end node is not
\* stored; when both are stored it gives the entity, and after it one more
\* edge of the kind at most is stored than before, none when the call
\* repeats the one before.
C23_EdgeNeedsBothEnds ==
    /\ last.op \in {"put", "edge_get_or_create"}
    /\ last.kind \notin NodeKinds
    /\ RequiredProperties(last.kind) \subseteq DOMAIN last.kwargs
    /\ ValidKwargs(last.kwargs)
    => IF ~EndsStored
       THEN ~last.ok /\ last.exc = NoExc /\ nodes = last.nodes /\ edges = last.edges
       ELSE /\ last.ok /\ last.exc = NoExc
            /\ nodes = last.nodes
            /\ \E e \in edges :
                  /\ e.kind = last.kind
                  /\ edges \ {e} = last.edges \ MatchEdge(last.edges, e.kind, e.src, e.dst)
            /\ last.again => Cardinality(edges) = Cardinality(last.edges)

StoredUp(o) ==
    \/ /\ o.msg_type = "router_up"
       /\ \E n \in MatchNode(nodes, "Border", o.routerid) : StateOf(n) = "up"
    \/ /\ o.msg_type = "nexthop_up" /\ "pathid" \in DOMAIN o
       /\ \E e \in MatchEdge(edges, "InterEgress", o.routerid, o.nexthop) :
             StateOf(e) = "up" /\ e.props.pathid = o.pathid
    \/ /\ o.msg_type = "route_up"
       /\ \E e \in MatchEdge(edges, "Route", o.next_hop, o.prefix) : StateOf(e) = "up"

\* C25: a router_up, route_up or nexthop_up received for an entity that is
\* stored with state up raises no error and leaves every stored node and
\* edge as it was.
C25_RepeatedUpChangesNothing ==
    [][(/\ last'.op = "receive" /\ last'.line.kind = "object"
        /\ "msg_type" \in DOMAIN last'.line.obj
        /\ StoredUp(last'.line.obj))
       => /\ last'.exc = NoExc
          /\ nodes' = nodes
          /\ edges' = edges]_vars

\* C26: put() of an entity that could be constructed raises nothing and
\* gives a stored entity, on which every property the entity was given has
\* the value it was given.
C26_PutReturnsWhatWasPut ==
    last.op = "put" /\ Model_init(last.kind, last.kwargs) = NoExc =>
        /\ last.exc = NoExc
        /\ last.ok
        /\ \E x \in (IF last.kind \in NodeKinds THEN nodes ELSE edges) :
              /\ x.kind = last.kind
              /\ \A k \in DOMAIN last.kwargs \ {"src", "dst"} :
                    k \in DOMAIN x.props /\ x.props[k] = last.kwargs[k]

\* C27: the start-up makes ConnectAttempts attempts at most, sleeps once
\* for each attempt that failed, and comes to an end; it ends started only
\* with a driver, and when every attempt failed it ends failed.
C27_ConnectIsBoundedAndFailsWithoutStore ==
    /\ [](/\ neo4j.attempts <= ConnectAttempts
          /\ neo4j.sleeps <= neo4j.attempts
          /\ neo4j.driver = None <=> neo4j.sleeps = neo4j.attempts
          /\ neo4j.pc = "started" => neo4j.driver # None)
    /\ <>(neo4j.pc \in {"started", "failed"})
    /\ [](neo4j.pc = "constraints" /\ neo4j.driver = None => <>(neo4j.pc = "failed"))

\* Every attempt failed and the start-up has ended.
C27_EveryAttemptFailed ==
    /\ neo4j.sleeps = ConnectAttempts
    /\ neo4j.pc = "failed"
    /\ last.exc = "AttributeError"

\* C28: after a peer_up with peer_ip, peer_as, local_ip and local_as and no
\* state has been processed while a border router is stored under local_ip,
\* nothing was raised, a Neighbor is stored under peer_ip with state up, a
\* Session edge from the border router to it is stored with state up, and an
\* EventPeerUp is on the queue of every application registered for it.
C28_PeerUpStoresNeighborAndSession ==
    (/\ last.op = "receive"
     /\ last.line.kind = "object"
     /\ Get(last.line.obj, "msg_type") = "peer_up"
     /\ {"peer_ip", "peer_as", "local_ip", "local_as"} \subseteq DOMAIN last.line.obj
     /\ "state" \notin DOMAIN last.line.obj
     /\ MatchNode(nodes, "Border", last.line.obj.local_ip) # {})
    => /\ last.exc = NoExc
       /\ \E n \in MatchNode(nodes, "Neighbor", last.line.obj.peer_ip) : StateOf(n) = "up"
       /\ \E e \in MatchEdge(edges, "Session", last.line.obj.local_ip, last.line.obj.peer_ip) :
              StateOf(e) = "up"
       /\ \A a \in Apps :
              "EventPeerUp" \in handlers[a] /\ a # TopoManager =>
                  CountEvents(events[a], "EventPeerUp") >= 1

\* C29: after a peer_down that carries a peer_ip and no local_ip has been
\* processed while a Neighbor is stored under the peer_ip, nothing was
\* raised, that Neighbor has state down, and an EventPeerDown is on the queue
\* of every application registered for it.
C29_PeerDownMarksNeighborDown ==
    (/\ last.op = "receive"
     /\ last.line.kind = "object"
     /\ Get(last.line.obj, "msg_type") = "peer_down"
     /\ "peer_ip" \in DOMAIN last.line.obj
     /\ "local_ip" \notin DOMAIN last.line.obj
     /\ MatchNode(nodes, "Neighbor", last.line.obj.peer_ip) # {})
    => /\ last.exc = NoExc
       /\ \A n \in MatchNode(nodes, "Neighbor", last.line.obj.peer_ip) : StateOf(n) = "down"
       /\ \A a \in Apps :
              "EventPeerDown" \in handlers[a] /\ a # TopoManager =>
                  CountEvents(events[a], "EventPeerDown") >= 1

\* C30: after a route_down with peer_ip and prefix has been processed while
\* a Route edge to the prefix is stored from the next hop it names (from
\* the peer when it names none), nothing was raised, that edge has state
\* down, and an EventRouteDel is on the queue of every application
\* registered for it.
C30_RouteDownMarksRouteDown ==
    (/\ last.op = "receive"
     /\ last.line.kind = "object"
     /\ Get(last.line.obj, "msg_type") = "route_down"
     /\ {"peer_ip", "prefix"} \subseteq DOMAIN last.line.obj
     /\ MatchEdge(edges, "Route",
                  IF "next_hop" \in DOMAIN last.line.obj THEN last.line.obj.next_hop
                  ELSE last.line.obj.peer_ip,
                  last.line.obj.prefix) # {})
    => /\ last.exc = NoExc
       /\ \A e \in MatchEdge(edges, "Route",
                             IF "next_hop" \in DOMAIN last.line.obj
                             THEN last.line.obj.next_hop ELSE last.line.obj.peer_ip,
                             last.line.obj.prefix) : StateOf(e) = "down"
       /\ \A a \in Apps :
              "EventRouteDel" \in handlers[a] /\ a # TopoManager =>
                  CountEvents(events[a], "EventRouteDel") >= 1

\* C31: when a route_up carrying local_pref, as_path and med is received
\* right after a route_up for the same next hop and prefix, nothing is
\* raised, the Route edge of the pair is stored with state up and the
\* local_pref, as_path and med of the second message, and an EventRouteAdd
\* is put on the queue of every application registered for it that has room.
C31_SecondRouteUpUpdatesRoute ==
    [][(/\ last.op = "receive" /\ last.line.kind = "object"
        /\ Get(last.line.obj, "msg_type") = "route_up"
        /\ last'.op = "receive" /\ last'.line.kind = "object"
        /\ Get(last'.line.obj, "msg_type") = "route_up"
        /\ {"next_hop", "prefix", "peer_ip", "local_pref", "as_path", "med"}
               \subseteq (DOMAIN last.line.obj) \cap (DOMAIN last'.line.obj)
        /\ last'.line.obj.next_hop = last.line.obj.next_hop
        /\ last'.line.obj.prefix = last.line.obj.prefix)
       => /\ last'.exc = NoExc
          /\ \E e \in MatchEdge(edges', "Route", last'.line.obj.next_hop,
                                last'.line.obj.prefix) :
                /\ StateOf(e) = "up"
                /\ {"local_pref", "as_path", "med"} \subseteq DOMAIN e.props
                /\ e.props.local_pref = last'.line.obj.local_pref
                /\ e.props.as_path = last'.line.obj.as_path
                /\ e.props.med = last'.line.obj.med
          /\ \A a \in Apps :
                ("EventRouteAdd" \in handlers[a] /\ a # TopoManager
                 /\ Len(events[a]) < EventQueueCap) =>
                    Len(events'[a]) = Len(events[a]) + 1]_vars


\* The handlers whose store operation is reached find no record: a
\* router_up or router_down for a router id without a Border node, a
\* nexthop_down or link_down with an end node that is not stored.
StoreReturnsNoRecord(l, ns) ==
    IF l.handler \in {"router_up", "router_down"}
    THEN MatchNode(ns, "Border", l.line.obj.routerid) = {}
    ELSE IF l.handler = "nexthop_down"
    THEN \/ MatchNode(ns, "Border", l.line.obj.routerid) = {}
         \/ MatchNode(ns, "Nexthop", l.line.obj.nexthop) = {}
    ELSE IF l.handler = "intra_link_down"
    THEN \/ MatchNode(ns, "Border", l.line.obj.src) = {}
         \/ MatchNode(ns, "Border", l.line.obj.dst) = {}
    ELSE FALSE

C34_BindingClearedByOwnConnectionOnly ==
    [][\A r \in RouterIds, c \in Conns :
          (/\ DictGet(router_to_connection, r, None) = c
           /\ DictGet(router_to_connection', r, None) \notin Conns)
          => \/ /\ last'.op = "receive" /\ last'.conn = c
                /\ last'.line.kind = "object"
                /\ Get(last'.line.obj, "msg_type") = "router_down"
                /\ "routerid" \in DOMAIN last'.line.obj
                /\ last'.line.obj.routerid = r
             \/ last'.op = "lost" /\ last'.conn = c]_vars


\* C35: a router_down with a router id that is received is handled by
\* router_down and leaves the router id in the dict with no connection; and
\* when a connection is lost, for every router id that is in the dict with
\* no connection no line is put on the incoming queue and the router id
\* stays as it is.
C35_LossAfterRouterDownQueuesNothing ==
    [][/\ (/\ last'.op = "receive" /\ last'.line.kind = "object"
           /\ Get(last'.line.obj, "msg_type") = "router_down"
           /\ "routerid" \in DOMAIN last'.line.obj)
          => /\ last'.handler = "router_down"
             /\ <<last'.line.obj.routerid, None>> \in router_to_connection'
       /\ last'.op = "lost" =>
             \A r \in RouterIds :
                <<r, None>> \in router_to_connection =>
                   /\ <<r, None>> \in router_to_connection'
                   /\ Cardinality({i \in DOMAIN incomming_queue' :
                                      incomming_queue'[i][2] = FmtRouterDown(r)})
                      = Cardinality({i \in DOMAIN incomming_queue :
                                        incomming_queue[i][2] = FmtRouterDown(r)})]_vars

\* C35 witness: a connection was lost while a router id was in the dict
\* with no connection, and no line for it waits on the incoming queue.
C35_LostWhileRouterIsDown ==
    /\ last.op = "lost"
    /\ \E r \in RouterIds :
          /\ <<r, None>> \in router_to_connection
          /\ \A i \in DOMAIN incomming_queue : incomming_queue[i][2] # FmtRouterDown(r)


\* AppBase.stop(): self.running = False
Stop(a) ==
    /\ running[a]
    /\ running' = [running EXCEPT ![a] = FALSE]
    /\ last' = [op |-> "stop", app |-> a, was |-> loop[a], waiting |-> events[a]]
    /\ UNCHANGED <<queries, neo4j, loop, connection_to_protocol_instance,
                   router_to_connection, incomming_queue, outgoing_queue, nodes, edges,
                   nexthops, prefixes, handlers, observers, events>>

\* The applications of the example with their event loops, the topology
\* manager sending events, and stop() called on any application at any time.
NextStop ==
    \/ \E ev \in BusEvents : AppSendEvent(TopoManager, ev)
    \/ \E a \in Apps : EventGet(a)
    \/ \E a \in Apps, h \in HandlerMethods, raises \in BOOLEAN : HandlerCall(a, h, raises)
    \/ \E a \in Apps : Stop(a)

\* The hub runs every greenlet that can run: a loop with an event to take
\* takes it, a loop with a handler to call calls it.  Nothing makes the
\* manager send another event.
SpecStop ==
    /\ Init /\ [][NextStop]_vars
    /\ \A a \in Apps :
          /\ WF_vars(EventGet(a))
          /\ WF_vars(\E h \in HandlerMethods, raises \in BOOLEAN : HandlerCall(a, h, raises))

\* C36: once stop() was called on an application no step calls one of its
\* handlers, and its event loop ends at some later time.
C36_StoppedLoopCallsNothingAndEnds ==
    /\ [][\A a \in Apps :
             ~running[a] => ~(last'.op = "handler" /\ last'.app = a)]_vars
    /\ \A a \in Apps : [](~running[a] => <>(~loop[a].alive))


\* C37: when a nexthop_down or a link_down is handled while the store holds
\* no edge of that kind between the two ends, the store holds the same edges
\* afterwards and no event is queued.
C37_DownOfUnknownLinkStoresNothing ==
    [][/\ (/\ last'.op = "receive" /\ last'.handler = "nexthop_down"
           /\ MatchEdge(edges, "InterEgress", last'.line.obj.routerid,
                        last'.line.obj.nexthop) = {})
          => edges' = edges /\ events' = events
       /\ (/\ last'.op = "receive" /\ last'.handler = "intra_link_down"
           /\ MatchEdge(edges, "IntraLink", last'.line.obj.src, last'.line.obj.dst) = {})
          => edges' = edges /\ events' = events]_vars


MaxQueries == 3
MaxOrders == 2

\* Property.__ge__ / __le__: query.FilterNode(name, opsymbol, value)
FilterNode(name, opsymbol, value) ==
    [kind |-> "filter", name |-> name, opsymbol |-> opsymbol, value |-> value]

\* query.ConjunctionNode(*nodes)
ConjunctionNode(given) == [kind |-> "and", nodes |-> given]

\* self.filters of a Query made without filters.
NoFilter == [kind |-> "none"]

\* What the WHERE clause of to_cypher lets through: a FilterNode compares the
\* property, a ConjunctionNode joins the clauses of its given with AND.
RECURSIVE FilterHolds(_, _)
FilterHolds(pred, e) ==
    IF pred.kind = "none" THEN TRUE
    ELSE IF pred.kind = "filter"
    THEN IF pred.opsymbol = ">=" THEN e[pred.name] >= pred.value
         ELSE e[pred.name] <= pred.value
    ELSE \A i \in DOMAIN pred.nodes : FilterHolds(pred.nodes[i], e)

\* Model.query(): Query(cls._gdb, kind=kind).filter() gives the new Query
\* itself, with filters None and orders None (orders 0: no list).
Query_init(h) ==
    [heap |-> [h EXCEPT !.query = Append(@, [filters |-> NoFilter, orders |-> 0])],
     ret |-> Len(h.query) + 1]

\* Query.filter(*nodes): self when no node is given, else a new Query whose
\* filters is the one predicate or the ConjunctionNode of the old filters and
\* the given, and whose orders is self.orders, the same list object.
Query_filter(h, q, given) ==
    IF given = <<>> THEN [heap |-> h, ret |-> q]
    ELSE LET f == h.query[q].filters
             preds == (IF f.kind = "none" THEN <<>> ELSE <<f>>) \o given
             pred == IF Len(preds) = 1 THEN preds[1] ELSE ConjunctionNode(preds)
         IN  [heap |-> [h EXCEPT !.query =
                           Append(@, [filters |-> pred, orders |-> h.query[q].orders])],
              ret |-> Len(h.query) + 1]

\* Query.order(*nodes): self when no node is given; else self.orders becomes
\* a new list when it is None, a PropertyOrder is made of every node that is
\* a Property and appended to self.orders, and self is returned.
Query_order(h, q, given) ==
    IF given = <<>> THEN [heap |-> h, ret |-> q]
    ELSE LET h1 == IF h.query[q].orders # 0 THEN h
                   ELSE [query |-> [h.query EXCEPT ![q].orders = Len(h.list) + 1],
                         list |-> Append(h.list, <<>>)]
             ref == h1.query[q].orders
         IN  [heap |-> [h1 EXCEPT !.list[ref] =
                           @ \o [i \in DOMAIN given |->
                                    IF "property" \in DOMAIN given[i]
                                    THEN Property_pos(given[i].property)
                                    ELSE given[i]]],
              ret |-> q]

\* The orderings of a query: the items of the list self.orders refers to.
Orders(h, q) == IF h.query[q].orders = 0 THEN <<>> ELSE h.list[h.query[q].orders]

\* The arguments of filter(): none, Route.local_pref >= 100, Route.med <= 0,
\* or both.
FilterArgs ==
    {<<>>, <<FilterNode("local_pref", ">=", 100)>>, <<FilterNode("med", "<=", 0)>>,
     <<FilterNode("local_pref", ">=", 100), FilterNode("med", "<=", 0)>>}

\* The arguments of order(): none, -Route.local_pref, or Route.as_path.
OrderArgs == {<<>>, <<Property_neg("local_pref")>>, <<[property |-> "as_path"]>>}

\* The application makes a query from a model class.
MakeQuery ==
    /\ Len(queries.query) < MaxQueries
    /\ \E r \in {Query_init(queries)} :
          /\ queries' = r.heap
          /\ last' = [op |-> "query", ret |-> r.ret]
    /\ UNCHANGED <<running, neo4j, loop, connection_to_protocol_instance,
                   router_to_connection, incomming_queue, outgoing_queue, nodes, edges,
                   nexthops, prefixes, handlers, observers, events>>

\* The application calls q.filter(*nodes).
DeriveFilter(q, given) ==
    /\ q \in DOMAIN queries.query
    /\ given # <<>> => Len(queries.query) < MaxQueries
    /\ \E r \in {Query_filter(queries, q, given)} :
          /\ queries' = r.heap
          /\ last' = [op |-> "filter", from |-> q, nodes |-> given, ret |-> r.ret]
    /\ UNCHANGED <<running, neo4j, loop, connection_to_protocol_instance,
                   router_to_connection, incomming_queue, outgoing_queue, nodes, edges,
                   nexthops, prefixes, handlers, observers, events>>

\* The application calls q.order(*nodes).
DeriveOrder(q, given) ==
    /\ q \in DOMAIN queries.query
    /\ Len(Orders(queries, q)) + Len(given) <= MaxOrders
    /\ \E r \in {Query_order(queries, q, given)} :
          /\ queries' = r.heap
          /\ last' = [op |-> "order", from |-> q, nodes |-> given, ret |-> r.ret]
    /\ UNCHANGED <<running, neo4j, loop, connection_to_protocol_instance,
                   router_to_connection, incomming_queue, outgoing_queue, nodes, edges,
                   nexthops, prefixes, handlers, observers, events>>

NextDerive ==
    \/ MakeQuery
    \/ \E q \in 1..MaxQueries, given \in FilterArgs : DeriveFilter(q, given)
    \/ \E q \in 1..MaxQueries, given \in OrderArgs : DeriveOrder(q, given)

SpecDerive == Init /\ [][NextDerive]_vars

\* The routes the filters are tried on.
TestEntities == [local_pref : {50, 100}, med : {0, 10}]

\* C39: a step that is q.filter(..) or q.order(..) leaves every query that
\* exists, q among them, with the filters and the orderings it has; and the
\* query that q.filter(..) with nodes returns lets through exactly the
\* entities that the filters of q and every node given let through.
C39_DerivingLeavesQueriesAlone ==
    [][last'.op \in {"filter", "order"} =>
          /\ \A k \in DOMAIN queries.query :
                /\ queries'.query[k].filters = queries.query[k].filters
                /\ Orders(queries', k) = Orders(queries, k)
          /\ (last'.op = "filter" /\ last'.nodes # <<>>) =>
                \A e \in TestEntities :
                   FilterHolds(queries'.query[last'.ret].filters, e)
                   <=> /\ FilterHolds(queries.query[last'.from].filters, e)
                       /\ \A i \in DOMAIN last'.nodes : FilterHolds(last'.nodes[i], e)]_vars

\* ---------------------------------------------------------------------
\* Mappings and the commands sent for them.

\* Mapping.get_or_create(routerid, prefix, properties, for_peer): the source
\* is the Neighbor or the Border with this routerid, the destination the
\* Prefix; the prefix is added to the properties and Edge.get_or_create
\* generates the uid.  Every property of a Mapping given here is a
\* StringProperty or the PrefixProperty, which keep a string as it is.
Mapping_get_or_create(w, routerid, prefix, properties, for_peer) ==
    Edge_neo4j_to_model(
        create_link(w, "Mapping", IF for_peer THEN "Neighbor" ELSE "Border", routerid,
                    "Prefix", prefix,
                    Merge(Merge(properties, [prefix |-> prefix]),
                          [uid |-> UIDProperty_generate(w)])),
        "Mapping", routerid, prefix)

\* The send_msg calls of create_mapping from position i on: a call that
\* raises ends them.  sent lists the calls that returned.
RECURSIVE send_msgs(_, _, _, _, _)
send_msgs(map, outq, msgs, i, sent) ==
    IF i > Len(msgs) THEN [outq |-> outq, exc |-> NoExc, sent |-> sent]
    ELSE LET s == send_msg(map, outq, msgs[i][1], msgs[i][2])
         IN  IF s.exc # NoExc THEN [outq |-> outq, exc |-> s.exc, sent |-> sent]
             ELSE send_msgs(map, s.outq, msgs, i + 1, Append(sent, msgs[i]))

\* TopologyManager.create_mapping(routerid, prefix, path_info, for_peer)
create_mapping(map, outq, w, routerid, prefix, path_info, for_peer) ==
    IF DOMAIN path_info = {}
    THEN [w |-> w, outq |-> outq, exc |-> NoExc, mapping |-> FALSE, sent |-> <<>>]
    ELSE LET path == [ingress |-> path_info.ingress.id, egress |-> path_info.egress.id,
                      neighbor |-> path_info.neighbor.id,
                      pathid |-> path_info.neighbor.pathid, state |-> "up"]
             r == Mapping_get_or_create(w, routerid, prefix, path, for_peer)
             add_mapping == <<path.ingress,
                              [command |-> "add_mapping", routerid |-> routerid,
                               prefix |-> prefix, nexthop |-> path.neighbor,
                               egress |-> path.egress, pathid |-> path.pathid,
                               for_peer |-> for_peer]>>
             add_tunnel == <<path.egress,
                             [command |-> "add_tunnel", routerid |-> path.egress,
                              pathid |-> path.pathid, nexthop |-> path.neighbor]>>
         IN  IF ~r.ok
             THEN [w |-> r.w, outq |-> outq, exc |-> r.exc, mapping |-> FALSE, sent |-> <<>>]
             ELSE LET s == send_msgs(map, outq,
                                     IF path.ingress # path.egress
                                     THEN <<add_mapping, add_tunnel>> ELSE <<add_mapping>>,
                                     1, <<>>)
                  IN  [w |-> r.w, outq |-> s.outq, exc |-> s.exc, mapping |-> TRUE,
                       sent |-> s.sent]

\* The paths an application hands to create_mapping, and no path.
PathInfos ==
    {<<>>} \cup
    {[ingress |-> [id |-> i], egress |-> [id |-> e],
      neighbor |-> [id |-> Ip1, pathid |-> PyStr(<<"1">>)]] : i, e \in RouterIds}

\* An application calls create_mapping.
CreateMapping(routerid, prefix, path_info, for_peer) ==
    \E p \in {create_mapping(router_to_connection, outgoing_queue, World, routerid, prefix,
                             path_info, for_peer)} :
        /\ SetWorld(p.w)
        /\ outgoing_queue' = p.outq
        /\ last' = [op |-> "create_mapping", routerid |-> routerid, prefix |-> prefix,
                    path_info |-> path_info, for_peer |-> for_peer, exc |-> p.exc,
                    mapping |-> p.mapping, sent |-> p.sent, map |-> router_to_connection,
                    outq |-> outgoing_queue]
        /\ UNCHANGED <<queries, running, neo4j,
                   loop, connection_to_protocol_instance, router_to_connection,
                       incomming_queue, handlers, observers>>

\* One application, which handles EventRouteAdd as example1's calculate_route
\* does and creates the mappings.
RouteAddHandlers == [a \in Apps |-> IF a = "app1" THEN {"EventRouteAdd"} ELSE {}]

\* The store holds two border routers and a prefix.
InitMapping ==
    /\ connection_to_protocol_instance = {}
    /\ router_to_connection = {}
    /\ incomming_queue = <<>>
    /\ outgoing_queue = <<>>
    /\ nodes = {Stored.BorderA, Stored.BorderB, Stored.PrefixP}
    /\ edges = {}
    /\ nexthops = {}
    /\ prefixes = {}
    /\ handlers = RouteAddHandlers
    /\ observers = [a \in Apps |-> register_observers(RouteAddHandlers, a)]
    /\ events = [a \in Apps |-> <<>>]
    /\ loop = [a \in Apps |-> Waiting]
    /\ running = [a \in Apps |-> TRUE]
    /\ queries = NoQueries
    /\ neo4j = Connected
    /\ last = [op |-> "init"]

\* Router a comes up and goes down on connection c1 and the other router on
\* c2, the application creates mappings for router a, the send loop writes
\* the commands out.
NextMapping ==
    \/ \E c \in Conns : Connect(c)
    \/ \E c \in Conns, o \in {x \in RouterObjects : "routerid" \in DOMAIN x} :
          /\ (c = "c1") = (o.routerid = <<"a">>)
          /\ Receive(c, [kind |-> "object", obj |-> o])
    \/ \E path_info \in PathInfos, for_peer \in BOOLEAN :
          /\ UIDProperty_generate(World)[2] <= MaxUuid
          /\ CreateMapping(<<"a">>, Prefix1, path_info, for_peer)
    \/ SendLoop

SpecMapping == InitMapping /\ [][NextMapping]_vars

====
